---- MODULE Spec2Model ----
(***************************************************************************)
(* Crawl-and-classify pipeline of the Workday website scanner:             *)
(*   - URL canonicalization (scan route, link extractor, client),          *)
(*   - the bounded breadth-first crawler of /api/website/scan,             *)
(*   - the per-snippet classification loop of /api/website/analyze.        *)
(*                                                                         *)
(* A URL string is a record.  Its path is the sequence of "/"-separated    *)
(* segments that follow the host: "http://h" has path << >>, "http://h/"   *)
(* has << "" >>, "http://h/a/" has << "a", "" >>, "http://h/a//" has       *)
(* << "a", "", "" >>.  A string ends in "/" exactly when it carries no     *)
(* fragment, and either its query ends in "/" or it has no query and its   *)
(* last path segment is empty.                                             *)
(***************************************************************************)
EXTENDS Integers, Sequences, FiniteSets, TLC

VARIABLES
    \* ---- canonicalization harness
    cFn,        \* which canonicalizer is applied: "route" or "client"
    cIn,        \* the input string
    cOut,       \* successive results of applying the canonicalizer
    \* ---- scan route (one request)
    req,        \* request body: url, maxUrls, maxDepth, excludeUrls
    pc,         \* position of the handler
    visited,    \* crawlWebsite: Set<string>
    urls,       \* crawlWebsite: URLData[]
    queue,      \* crawlWebsite: Array<{url, depth}>
    cur,        \* the record whose page is being fetched
    fetchLog,   \* the GET requests issued so far, with their outcome
    resp,       \* the HTTP response of the route
    \* ---- analyze route (one request)
    areq,       \* request body: urls, keywords, workStreamAreas
    apc,        \* position of the handler
    aIdx,       \* index in urls of the page being processed
    sIdx,       \* index in snippets of the snippet being classified
    pageTitle,  \* title of the page being processed
    snippets,   \* detected snippets of the page being processed
    findings,   \* findings of the page being processed
    results,    \* POST: the results array
    pageLog,    \* the page fetches made so far, with what the detector found
    callLog,    \* the completion calls made so far, with their outcome
    aresp,      \* the HTTP response of the route
    \* ---- detector harness
    dPc,        \* position of the harness
    dBody,      \* the markup-free body of a fetched page
    dOut,       \* what findLegacySnippets returned for its text
    \* ---- classifier harness
    kPc,        \* position of the harness
    kSnippet,   \* the snippet being classified
    kOutcome,   \* what the completion call does: returns content, or throws
    kFinding,   \* the finding pushed for the snippet
    \* ---- client (the WebsiteScanner component)
    cPhase,        \* "mount" before the mount effect has run, then "ready"
    cSteps,        \* how many operations the user has started
    scannedURLs,   \* useState: the URL list shown and analyzed
    masterUrlList, \* useState: the master list
    storage,       \* localStorage under MASTER_URLS_KEY
    isScanning,    \* useState: a scan request is awaited
    currentMaster, \* handleScan: the list captured before the request
    isAnalyzing,   \* useState: an analyze request is awaited
    urlList,       \* handleAnalyze: the URLs sent with the request
    report,        \* the report built last
    mergeLog       \* the last call of mergeUrlLists: arguments and result

canonVars == <<cFn, cIn, cOut>>
scanVars  == <<req, pc, visited, urls, queue, cur, fetchLog, resp>>
analyzeVars ==
    <<areq, apc, aIdx, sIdx, pageTitle, snippets, findings, results, pageLog, callLog,
      aresp>>
detectVars == <<dPc, dBody, dOut>>
classifyVars == <<kPc, kSnippet, kOutcome, kFinding>>
clientVars ==
    <<cPhase, cSteps, scannedURLs, masterUrlList, storage, isScanning, currentMaster,
      isAnalyzing, urlList, report, mergeLog>>
unitVars  == <<detectVars, classifyVars, clientVars>>
vars      == <<canonVars, scanVars, analyzeVars, unitVars>>

----------------------------------------------------------------------------
(* Bounds of the model *)

MaxPathLen == 3     \* longest path (in segments) of a canonicalizer input
MaxCanonSteps == 3  \* how many times the canonicalizer is re-applied
MaxUrlsBound == 4   \* largest maxUrls of a crawl request
MaxDepthBound == 3  \* largest maxDepth of a crawl request
MaxAnalyzeUrls == 2 \* longest list of distinct URLs of an analyze request
MaxClientSteps == 4 \* how many operations the user starts in the client

----------------------------------------------------------------------------
(* Strings *)

NoHost == << >>
ExampleEdu == <<"example", "edu">>
SubExampleEdu == <<"sub", "example", "edu">>
OtherCom == <<"other", "com">>

\* kind: "url"    an absolute or scheme-less URL text
\*       "rooted" an href starting with "/"
\*       "rel"    any other relative href
\*       "skip"   javascript:, mailto:, tel: or an in-page "#..." href
\*       "bad"    text starting with "http" that the URL parser rejects
\*       "empty"  the empty string
Str(kind, scheme, host, path, query, frag) ==
    [kind |-> kind, scheme |-> scheme, host |-> host, path |-> path,
     query |-> query, frag |-> frag]

Url(scheme, host, path) == Str("url", scheme, host, path, "", FALSE)
EmptyStr == Str("empty", "none", NoHost, << >>, "", FALSE)
BadStr == Str("bad", "http", NoHost, << >>, "", FALSE)
SkipStr == Str("skip", "none", NoHost, << >>, "", TRUE)

\* url.startsWith('http')
StartsWithHttp(s) == s.kind \in {"url", "bad"} /\ s.scheme # "none"

\* `https://${url}`
PrependHttps(s) ==
    IF s.kind = "url" THEN [s EXCEPT !.scheme = "https"]
    ELSE [s EXCEPT !.kind = "bad", !.scheme = "https"]

\* new URL(s) succeeds
Parseable(s) == s.kind = "url" /\ s.scheme # "none"

\* new URL(s).href : an empty path is serialized as "/"
ParseHref(s) == IF s.path = << >> THEN [s EXCEPT !.path = <<"">>] ELSE s

\* urlObj.hash = ''
ClearHash(s) == [s EXCEPT !.frag = FALSE]

EndsWithSlash(s) ==
    /\ ~s.frag
    /\ IF s.query # "" THEN s.query = "q/"
       ELSE s.path # << >> /\ s.path[Len(s.path)] = ""

\* href.replace(/\/$/, '') : removes one trailing "/"
StripSlash(s) ==
    IF ~EndsWithSlash(s) THEN s
    ELSE IF s.query # "" THEN [s EXCEPT !.query = "q"]
    ELSE [s EXCEPT !.path = SubSeq(s.path, 1, Len(s.path) - 1)]

\* the route's canonical form of a parseable string
Canon(s) == StripSlash(ClearHash(ParseHref(s)))

\* the client's canonical form of any string
normalizeUrlForCompare(url) ==
    LET u == IF StartsWithHttp(url) THEN url ELSE PrependHttps(url)
    IN IF Parseable(u) THEN Canon(u) ELSE url

----------------------------------------------------------------------------
(* Canonicalization harness: a string is drawn, then canonicalized again   *)
(* and again, by the route's inline code or by the client's helper.        *)

Segments == {"a", ""}

RECURSIVE SeqsUpTo(_, _)
SeqsUpTo(S, n) ==
    IF n = 0 THEN {<< >>}
    ELSE LET shorter == SeqsUpTo(S, n - 1)
         IN shorter \cup {Append(q, x) : q \in {r \in shorter : Len(r) = n - 1}, x \in S}

CanonInputs ==
    {Str("url", sc, h, p, qy, fr) :
        sc \in {"none", "http", "https"}, h \in {ExampleEdu, SubExampleEdu},
        p \in SeqsUpTo(Segments, MaxPathLen), qy \in {"", "q", "q/"},
        fr \in BOOLEAN}
    \cup {BadStr, EmptyStr}

CanonIdle == cFn = "idle" /\ cIn = EmptyStr /\ cOut = << >>

InitCanon ==
    /\ cFn \in {"route", "client"}
    /\ cIn \in CanonInputs
    /\ cFn = "route" => Parseable(cIn)
    /\ cOut = << >>

LastCanon == IF cOut = << >> THEN cIn ELSE cOut[Len(cOut)]

\* scan route lines 88-90 / 52-58 applied to the previous result
CanonRoute ==
    /\ cFn = "route"
    /\ Len(cOut) < MaxCanonSteps
    /\ cOut' = Append(cOut, Canon(LastCanon))
    /\ UNCHANGED <<cFn, cIn>>
    /\ UNCHANGED <<scanVars, analyzeVars, unitVars>>

\* normalizeUrlForCompare applied to the previous result
CanonClient ==
    /\ cFn = "client"
    /\ Len(cOut) < MaxCanonSteps
    /\ cOut' = Append(cOut, normalizeUrlForCompare(LastCanon))
    /\ UNCHANGED <<cFn, cIn>>
    /\ UNCHANGED <<scanVars, analyzeVars, unitVars>>

----------------------------------------------------------------------------
(* Link extractor *)

\* mutant: the hostname filter is missing
SameDomainAny(host, baseDomain) == TRUE

\* the hostname test of extractLinks: equal to the page's host, or ends
\* with "." followed by the page's host
SameDomain(host, baseDomain) ==
    \/ host = baseDomain
    \/ /\ Len(host) > Len(baseDomain)
       /\ SubSeq(host, Len(host) - Len(baseDomain) + 1, Len(host)) = baseDomain

\* the absolute text an href is turned into before it is parsed;
\* a relative href replaces the last segment of the page's path
ResolveLink(link, baseUrl) ==
    LET base == ParseHref(baseUrl)
    IN CASE link.kind = "rooted" ->
              [link EXCEPT !.kind = "url", !.scheme = base.scheme, !.host = base.host]
         [] link.kind = "rel" ->
              [link EXCEPT !.kind = "url", !.scheme = base.scheme, !.host = base.host,
                           !.path = SubSeq(base.path, 1, Len(base.path) - 1) \o link.path]
         [] OTHER -> link

\* one iteration of the while loop of extractLinks over the hrefs of a page
ExtractOne(links, link, baseUrl) ==
    IF link.kind = "skip" THEN links
    ELSE LET abs == ResolveLink(link, baseUrl)
         IN IF ~Parseable(abs) THEN links
            ELSE IF ~SameDomain(abs.host, ParseHref(baseUrl).host) THEN links
            ELSE LET normalizedUrl == Canon(abs)
                 IN IF \E i \in 1..Len(links) : links[i] = normalizedUrl
                    THEN links
                    ELSE Append(links, normalizedUrl)

RECURSIVE ExtractFrom(_, _, _)
ExtractFrom(links, html, baseUrl) ==
    IF html = << >> THEN links
    ELSE ExtractFrom(ExtractOne(links, Head(html), baseUrl), Tail(html), baseUrl)

extractLinks(html, baseUrl) == ExtractFrom(<< >>, html, baseUrl)

----------------------------------------------------------------------------
(* Scan route: POST /api/website/scan and crawlWebsite *)

UrlRequired == "URL is required"
InvalidUrl == "Invalid URL format"
TooManyUrls == "Maximum 300 URLs allowed"
TooDeep == "Maximum depth is 5 layers"

MaxUrlsAllowed == 300
MaxDepthAllowed == 5

\* href attributes found on the pages of the crawled sites
hHome == Url("http", ExampleEdu, << >>)                      \* http://example.edu
hHomeFrag == Str("url", "http", ExampleEdu, <<"">>, "", TRUE) \* http://example.edu/#top
hA == Url("http", ExampleEdu, <<"a">>)                       \* http://example.edu/a
hA3 == Url("http", ExampleEdu, <<"a", "", "", "">>)          \* http://example.edu/a///
hSubA == Url("http", SubExampleEdu, <<"a">>)                 \* http://sub.example.edu/a
hOther == Url("http", OtherCom, <<"a">>)                     \* http://other.com/a
hRootB == Str("rooted", "none", NoHost, <<"b">>, "", TRUE)   \* /b#f
hRelA == Str("rel", "none", NoHost, <<"a", "">>, "", FALSE)  \* a/

\* the pages a successful fetch may return, each the sequence of its hrefs
Pages ==
    { <<hA, hRootB, hOther>>,       \* two same-site links and a foreign one
      <<hSubA, hA>>,                \* a subdomain page and a same-host page
      <<hRootB, hHome>>,            \* a link back to the home page
      <<hA3, hA>>,                  \* the same page spelled with extra slashes
      <<SkipStr, BadStr, hRelA>>,   \* non-navigational, malformed, relative
      <<hA, hA, hHomeFrag>> }       \* a repeated link and a fragment link

\* a small campus site with a fixed link graph: the home page links to the
\* library's subdomain and to /about, the library links back to the main
\* host, /about links to /staff, and /staff links to /apply
CampusEdu == <<"campus", "edu">>
LibCampusEdu == <<"lib", "campus", "edu">>
cHome == Url("http", CampusEdu, << >>)              \* http://campus.edu
cLib == Url("http", LibCampusEdu, << >>)            \* http://lib.campus.edu
cAbout == Url("http", CampusEdu, <<"about">>)       \* http://campus.edu/about
cStaff == Url("http", CampusEdu, <<"staff">>)       \* http://campus.edu/staff
cApply == Url("http", CampusEdu, <<"apply">>)       \* http://campus.edu/apply
hRootStaff == Str("rooted", "none", NoHost, <<"staff">>, "", FALSE)  \* /staff

CampusSite(url) ==
    CASE url = Canon(cHome)  -> <<cLib, cAbout, hOther>>
      [] url = Canon(cLib)   -> <<cApply, cHome>>
      [] url = Canon(cAbout) -> <<hRootStaff, cHome>>
      [] url = Canon(cStaff) -> <<cApply, cAbout>>
      [] OTHER               -> <<SkipStr>>

\* what the web serves for a URL: the campus site is fixed, any other page
\* may hold any of the link lists of Pages
Web(url) ==
    IF url.host \in {CampusEdu, LibCampusEdu} THEN {CampusSite(url)} ELSE Pages

SeedInputs ==
    { Url("http", ExampleEdu, << >>),            \* http://example.edu
      Url("http", ExampleEdu, <<"", "">>),      \* http://example.edu//
      Url("none", SubExampleEdu, << >>),        \* sub.example.edu
      EmptyStr, BadStr }

\* the excludeUrls the client sends: nothing, or an earlier scan's list
ExcludeInputs == { << >>, <<hHome, hA>> }

NoRecord == [url |-> EmptyStr, depth |-> 0]
NoResponse == [status |-> 0, success |-> FALSE, error |-> "", urls |-> << >>, count |-> 0]

ScanIdle ==
    /\ req = [url |-> EmptyStr, maxUrls |-> 0, maxDepth |-> 0, excludeUrls |-> << >>]
    /\ pc = "idle" /\ visited = {} /\ urls = << >> /\ queue = << >>
    /\ cur = NoRecord /\ fetchLog = << >> /\ resp = NoResponse

InitScan ==
    /\ req \in [url : SeedInputs,
                maxUrls : (-1 .. MaxUrlsBound) \cup {MaxUrlsAllowed + 1},
                maxDepth : (-1 .. MaxDepthBound) \cup {MaxDepthAllowed + 1},
                excludeUrls : ExcludeInputs]
    /\ pc = "request"
    /\ visited = {} /\ urls = << >> /\ queue = << >>
    /\ cur = NoRecord /\ fetchLog = << >> /\ resp = NoResponse

\* crawls of the campus site
InitSite ==
    /\ req \in [url : {cHome},
                maxUrls : -1 .. MaxUrlsBound + 2,
                maxDepth : -1 .. MaxDepthBound + 1,
                excludeUrls : {<< >>}]
    /\ pc = "request"
    /\ visited = {} /\ urls = << >> /\ queue = << >>
    /\ cur = NoRecord /\ fetchLog = << >> /\ resp = NoResponse

validatedUrl(url) == IF StartsWithHttp(url) THEN url ELSE PrependHttps(url)

\* mutant: the test of maxDepth is missing
ScanValidationNoDepth(body) ==
    IF body.url.kind = "empty" THEN UrlRequired
    ELSE IF ~Parseable(validatedUrl(body.url)) THEN InvalidUrl
    ELSE IF body.maxUrls > MaxUrlsAllowed THEN TooManyUrls
    ELSE ""

\* the validation of POST; "" when the request is accepted
ScanValidation(body) ==
    IF body.url.kind = "empty" THEN UrlRequired
    ELSE IF ~Parseable(validatedUrl(body.url)) THEN InvalidUrl
    ELSE IF body.maxUrls > MaxUrlsAllowed THEN TooManyUrls
    ELSE IF body.maxDepth > MaxDepthAllowed THEN TooDeep
    ELSE ""

\* POST up to the call of crawlWebsite, and crawlWebsite's first three lines
ScanPOST ==
    /\ pc = "request"
    /\ IF ScanValidation(req) # ""
       THEN /\ pc' = "done"
            /\ resp' = [NoResponse EXCEPT !.status = 400, !.error = ScanValidation(req)]
            /\ UNCHANGED queue
       ELSE /\ pc' = "loop"
            /\ queue' = << [url |-> validatedUrl(req.url), depth |-> 0] >>
            /\ UNCHANGED resp
    /\ UNCHANGED <<req, visited, urls, cur, fetchLog>>
    /\ UNCHANGED <<canonVars, analyzeVars, unitVars>>

\* mutant: the count cap tested with <= (one record too many)
LoopConditionInclusive == Len(queue) > 0 /\ Len(urls) <= req.maxUrls

\* mutant: the loop stops one record short of the count cap
LoopConditionEarly == Len(queue) > 0 /\ Len(urls) < req.maxUrls - 1

\* the while condition of crawlWebsite
LoopCondition == Len(queue) > 0 /\ Len(urls) < req.maxUrls

\* mutant: the guard of the fetch tested with <=
ShouldFetchInclusive(depth, count) == depth <= req.maxDepth /\ count <= req.maxUrls

\* the guard of the fetch
ShouldFetch(depth, count) == depth < req.maxDepth /\ count < req.maxUrls

\* mutant: no dequeued entry is skipped
ShouldSkipNever(normalizedUrl, depth) == FALSE

\* mutant: the visited set is not consulted
ShouldSkipDepthOnly(normalizedUrl, depth) == depth > req.maxDepth

\* the test that skips a dequeued entry
ShouldSkip(normalizedUrl, depth) == normalizedUrl \in visited \/ depth > req.maxDepth

\* one iteration of the while loop, up to the await of fetchPage
Dequeue ==
    /\ pc = "loop"
    /\ LoopCondition
    /\ LET entry == Head(queue)
       IN /\ queue' = Tail(queue)
          /\ IF ~Parseable(entry.url)
             THEN UNCHANGED <<pc, visited, urls, cur, fetchLog>>
             ELSE LET normalizedUrl == Canon(entry.url)
                      rec == [url |-> normalizedUrl, depth |-> entry.depth]
                  IN IF ShouldSkip(normalizedUrl, entry.depth)
                     THEN UNCHANGED <<pc, visited, urls, cur, fetchLog>>
                     ELSE /\ visited' = visited \cup {normalizedUrl}
                          /\ urls' = Append(urls, rec)
                          /\ IF ShouldFetch(entry.depth, Len(urls'))
                             THEN /\ pc' = "fetching"
                                  /\ cur' = rec
                             ELSE UNCHANGED <<pc, cur>>
                          /\ UNCHANGED fetchLog
    /\ UNCHANGED <<req, resp>>
    /\ UNCHANGED <<canonVars, analyzeVars, unitVars>>

\* the links that pass the test of the for loop, in order
RECURSIVE Enqueued(_, _)
Enqueued(links, depth) ==
    IF links = << >> THEN << >>
    ELSE LET rest == Enqueued(Tail(links), depth)
         IN IF Head(links) \notin visited /\ Len(urls) < req.maxUrls
            THEN << [url |-> Head(links), depth |-> depth + 1] >> \o rest
            ELSE rest

\* fetchPage resolved with a non-empty page: extract its links and enqueue
FetchOk ==
    /\ pc = "fetching"
    /\ \E html \in Web(cur.url) :
         /\ queue' = queue \o Enqueued(extractLinks(html, cur.url), cur.depth)
         /\ fetchLog' = Append(fetchLog, [url |-> cur.url, ok |-> TRUE, html |-> html])
    /\ pc' = "loop"
    /\ cur' = NoRecord
    /\ UNCHANGED <<req, visited, urls, resp>>
    /\ UNCHANGED <<canonVars, analyzeVars, unitVars>>

\* mutant: the fetch error escapes fetchPage and POST answers 500
FetchFailAborts ==
    /\ pc = "fetching"
    /\ fetchLog' = Append(fetchLog, [url |-> cur.url, ok |-> FALSE, html |-> << >>])
    /\ pc' = "done"
    /\ resp' = [NoResponse EXCEPT !.status = 500, !.error = "Failed to scan website"]
    /\ cur' = NoRecord
    /\ UNCHANGED <<req, visited, urls, queue>>
    /\ UNCHANGED <<canonVars, analyzeVars, unitVars>>

\* fetchPage caught an error (network, timeout, status) and returned null,
\* or the body was empty
FetchFail ==
    /\ pc = "fetching"
    /\ fetchLog' = Append(fetchLog, [url |-> cur.url, ok |-> FALSE, html |-> << >>])
    /\ pc' = "loop"
    /\ cur' = NoRecord
    /\ UNCHANGED <<req, visited, urls, queue, resp>>
    /\ UNCHANGED <<canonVars, analyzeVars, unitVars>>

\* the loop ends: crawlWebsite returns urls and POST answers
Return ==
    /\ pc = "loop"
    /\ ~LoopCondition
    /\ pc' = "done"
    /\ resp' = [NoResponse EXCEPT !.status = 200, !.success = TRUE,
                                  !.urls = urls, !.count = Len(urls)]
    /\ UNCHANGED <<req, visited, urls, queue, cur, fetchLog>>
    /\ UNCHANGED <<canonVars, analyzeVars, unitVars>>


----------------------------------------------------------------------------
(* Text: a string of page text is a sequence of one-character strings *)

UpperToLower ==
    ("A" :> "a") @@ ("B" :> "b") @@ ("C" :> "c") @@ ("D" :> "d") @@
    ("E" :> "e") @@ ("F" :> "f") @@ ("G" :> "g") @@ ("H" :> "h") @@
    ("I" :> "i") @@ ("J" :> "j") @@ ("K" :> "k") @@ ("L" :> "l") @@
    ("M" :> "m") @@ ("N" :> "n") @@ ("O" :> "o") @@ ("P" :> "p") @@
    ("Q" :> "q") @@ ("R" :> "r") @@ ("S" :> "s") @@ ("T" :> "t") @@
    ("U" :> "u") @@ ("V" :> "v") @@ ("W" :> "w") @@ ("X" :> "x") @@
    ("Y" :> "y") @@ ("Z" :> "z")

Lower(c) == IF c \in DOMAIN UpperToLower THEN UpperToLower[c] ELSE c

LowerLetters ==
    {"a", "b", "c", "d", "e", "f", "g", "h", "i", "j", "k", "l", "m",
     "n", "o", "p", "q", "r", "s", "t", "u", "v", "w", "x", "y", "z"}
Digits == {"0", "1", "2", "3", "4", "5", "6", "7", "8", "9"}

\* \w and \s of the regular expressions
IsWordChar(c) == Lower(c) \in LowerLetters \cup Digits \cup {"_"}
IsSpace(c) == c \in {" ", "\n", "\t"}

\* text.slice(start, end) with 0-based, already clamped bounds
Slice(text, start, end) == SubSeq(text, start + 1, end)

\* the literal `word` (lower case) is at 1-based position i, in any letter case
MatchAt(text, i, word) ==
    /\ i >= 1
    /\ i + Len(word) - 1 <= Len(text)
    /\ \A k \in 1..Len(word) : Lower(text[i + k - 1]) = word[k]

\* \b between the characters at 1-based positions p - 1 and p
WordBoundary(text, p) ==
    LET before == p - 1 >= 1 /\ p - 1 <= Len(text) /\ IsWordChar(text[p - 1])
        after == p >= 1 /\ p <= Len(text) /\ IsWordChar(text[p])
    IN before # after

\* \b<word>\b matches at 1-based position i
WholeWordAt(text, i, word) ==
    /\ MatchAt(text, i, word)
    /\ WordBoundary(text, i)
    /\ WordBoundary(text, i + Len(word))

\* length of the run of whitespace that starts at 1-based position i
RECURSIVE SpaceRun(_, _)
SpaceRun(text, i) ==
    IF i <= Len(text) /\ IsSpace(text[i]) THEN 1 + SpaceRun(text, i + 1) ELSE 0

\* replace(/\s+/g, ' '): the first character of every whitespace run
\* becomes one space, the rest of the run is dropped
Collapse(text) ==
    LET marked == [i \in 1..Len(text) |->
                     [c |-> IF IsSpace(text[i]) THEN " " ELSE text[i],
                      keep |-> \/ ~IsSpace(text[i])
                               \/ i = 1
                               \/ ~IsSpace(text[i - 1])]]
        kept == SelectSeq(marked, LAMBDA m : m.keep)
    IN [i \in 1..Len(kept) |-> kept[i].c]

\* trim()
Trim(text) ==
    LET solid == {i \in 1..Len(text) : ~IsSpace(text[i])}
    IN IF solid = {} THEN << >>
       ELSE SubSeq(text, CHOOSE i \in solid : \A j \in solid : i <= j,
                         CHOOSE i \in solid : \A j \in solid : j <= i)

Min(a, b) == IF a < b THEN a ELSE b
Max(a, b) == IF a > b THEN a ELSE b

\* the members of a finite set of numbers in increasing order
RECURSIVE Ascending(_)
Ascending(S) ==
    IF S = {} THEN << >>
    ELSE LET m == CHOOSE x \in S : \A y \in S : x <= y
         IN <<m>> \o Ascending(S \ {m})

----------------------------------------------------------------------------
(* Reference detector: findLegacySnippets *)

wCougar == <<"c", "o", "u", "g", "a", "r">>
wWeb == <<"w", "e", "b">>
wColleague == <<"c", "o", "l", "l", "e", "a", "g", "u", "e">>
wWorkday == <<"W", "o", "r", "k", "d", "a", "y">>
SystemWords ==
    { <<"s", "t", "u", "d", "e", "n", "t">>,
      <<"s", "y", "s", "t", "e", "m">>,
      <<"e", "r", "p">>,
      <<"s", "i", "s">>,
      <<"b", "a", "n", "n", "e", "r">>,
      <<"r", "e", "g", "i", "s", "t", "r", "a", "t", "i", "o", "n">>,
      <<"h", "r">>,
      <<"f", "i", "n", "a", "n", "c", "e">>,
      <<"p", "a", "y", "r", "o", "l", "l">>,
      <<"p", "o", "r", "t", "a", "l">>,
      <<"i", "n", "f", "o", "r", "m", "a", "t", "i", "o", "n">> }

CougarBefore == 80
CougarAfter == 120
ColleagueWindow == 100
MinSnippet == 20

\* length of the match of /\b(cougar\s*web|cougarweb)\b/i at 1-based
\* position i, 0 when there is none
CougarMatchLen(text, i) ==
    IF ~(MatchAt(text, i, wCougar) /\ WordBoundary(text, i)) THEN 0
    ELSE LET n == SpaceRun(text, i + Len(wCougar))
             w == i + Len(wCougar) + n
         IN IF MatchAt(text, w, wWeb) /\ WordBoundary(text, w + Len(wWeb))
            THEN Len(wCougar) + n + Len(wWeb)
            ELSE 0

\* m.index (0-based) of every match of the two expressions
CougarIndexes(text) == {i - 1 : i \in {j \in 1..Len(text) : CougarMatchLen(text, j) > 0}}
ColleagueIndexes(text) == {i - 1 : i \in {j \in 1..Len(text) : WholeWordAt(text, j, wColleague)}}

\* COLLEGUE_SYSTEM_WORDS.test(window)
HasSystemWord(window) ==
    \E i \in 1..Len(window) : \E w \in SystemWords : WholeWordAt(window, i, w)

CougarSnippet(text, index) ==
    Trim(Collapse(Slice(text, Max(0, index - CougarBefore),
                              Min(Len(text), index + CougarAfter))))

ColleagueWindowOf(text, index) ==
    Slice(text, Max(0, index - ColleagueWindow), Min(Len(text), index + ColleagueWindow))

\* snippet.length > 20 && !results.some((r) => r.snippet === snippet)
\* mutant: every snippet is pushed, however short and however often seen
AcceptsAll(res, snippet) == TRUE

\* the test before results.push
Accepts(res, snippet) ==
    /\ Len(snippet) > MinSnippet
    /\ \A k \in DOMAIN res : res[k].snippet # snippet

\* the first while loop, over the matches in text order
RECURSIVE CougarLoop(_, _, _)
CougarLoop(res, text, indexes) ==
    IF indexes = << >> THEN res
    ELSE LET snippet == CougarSnippet(text, Head(indexes))
         IN CougarLoop(IF Accepts(res, snippet)
                       THEN Append(res, [snippet |-> snippet, offset |-> Head(indexes)])
                       ELSE res,
                       text, Tail(indexes))

\* the second while loop
RECURSIVE ColleagueLoop(_, _, _)
ColleagueLoop(res, text, indexes) ==
    IF indexes = << >> THEN res
    ELSE LET window == ColleagueWindowOf(text, Head(indexes))
             snippet == Trim(Collapse(window))
         IN ColleagueLoop(IF HasSystemWord(window) /\ Accepts(res, snippet)
                          THEN Append(res, [snippet |-> snippet, offset |-> Head(indexes)])
                          ELSE res,
                          text, Tail(indexes))

findLegacySnippets(text) ==
    ColleagueLoop(CougarLoop(<< >>, text, Ascending(CougarIndexes(text))),
                  text, Ascending(ColleagueIndexes(text)))

\* length of the match of /\b(cougar\s*web|cougarweb|colleague)\b/i at
\* 1-based position i, 0 when there is none
LegacyMatchLen(text, i) ==
    IF CougarMatchLen(text, i) > 0 THEN CougarMatchLen(text, i)
    ELSE IF WholeWordAt(text, i, wColleague) THEN Len(wColleague)
    ELSE 0

\* the matches at the 1-based positions `starts` (in decreasing order)
\* replaced by 'Workday'
RECURSIVE ReplaceAt(_, _)
ReplaceAt(text, starts) ==
    IF starts = << >> THEN text
    ELSE LET i == Head(starts)
             n == LegacyMatchLen(text, i)
         IN ReplaceAt(SubSeq(text, 1, i - 1) \o wWorkday \o SubSeq(text, i + n, Len(text)),
                      Tail(starts))

\* mutant: the snippet is kept as it is
ReplaceLegacyNothing(snippet) == snippet

\* snippet.replace(/\b(cougar\s*web|cougarweb|colleague)\b/gi, 'Workday')
ReplaceLegacy(snippet) ==
    LET up == Ascending({i \in 1..Len(snippet) : LegacyMatchLen(snippet, i) > 0})
    IN ReplaceAt(snippet, [k \in 1..Len(up) |-> up[Len(up) + 1 - k]])

\* the text fetchPageContent derives from the page: whitespace collapsed,
\* trimmed, cut to 30000 characters (the pages carry no markup)
TextLimit == 30000
PageText(html) == LET t == Trim(Collapse(html)) IN SubSeq(t, 1, Min(Len(t), TextLimit))

\* "Welcome to the campus  news page"
TextNews ==
    <<"W", "e", "l", "c", "o", "m", "e", " ", "t", "o", " ", "t", "h", "e",
      " ", "c", "a", "m", "p", "u", "s", " ", " ", "n", "e", "w", "s", " ",
      "p", "a", "g", "e">>

\* "Log in to CougarWeb to register for classes"
TextCougar ==
    <<"L", "o", "g", " ", "i", "n", " ", "t", "o", " ", "C", "o", "u", "g",
      "a", "r", "W", "e", "b", " ", "t", "o", " ", "r", "e", "g", "i", "s",
      "t", "e", "r", " ", "f", "o", "r", " ", "c", "l", "a", "s", "s", "e",
      "s">>

\* "CougarWeb"
TextShort ==
    <<"C", "o", "u", "g", "a", "r", "W", "e", "b">>

\* "Please consult your colleague about lunch"
TextPlain ==
    <<"P", "l", "e", "a", "s", "e", " ", "c", "o", "n", "s", "u", "l", "t",
      " ", "y", "o", "u", "r", " ", "c", "o", "l", "l", "e", "a", "g", "u",
      "e", " ", "a", "b", "o", "u", "t", " ", "l", "u", "n", "c", "h">>

\* "Use cougar web for grades. Visit the library and the gym and the cafe and the quad and the labs on campus this week. Payroll moved: the Colleague portal is closed"
TextBoth ==
    <<"U", "s", "e", " ", "c", "o", "u", "g", "a", "r", " ", "w", "e", "b",
      " ", "f", "o", "r", " ", "g", "r", "a", "d", "e", "s", ".", " ", "V",
      "i", "s", "i", "t", " ", "t", "h", "e", " ", "l", "i", "b", "r", "a",
      "r", "y", " ", "a", "n", "d", " ", "t", "h", "e", " ", "g", "y", "m",
      " ", "a", "n", "d", " ", "t", "h", "e", " ", "c", "a", "f", "e", " ",
      "a", "n", "d", " ", "t", "h", "e", " ", "q", "u", "a", "d", " ", "a",
      "n", "d", " ", "t", "h", "e", " ", "l", "a", "b", "s", " ", "o", "n",
      " ", "c", "a", "m", "p", "u", "s", " ", "t", "h", "i", "s", " ", "w",
      "e", "e", "k", ".", " ", "P", "a", "y", "r", "o", "l", "l", " ", "m",
      "o", "v", "e", "d", ":", " ", "t", "h", "e", " ", "C", "o", "l", "l",
      "e", "a", "g", "u", "e", " ", "p", "o", "r", "t", "a", "l", " ", "i",
      "s", " ", "c", "l", "o", "s", "e", "d">>

----------------------------------------------------------------------------
(* JavaScript values carried by a decoded completion and by a Finding.     *)
(* A string is given by name (s) or by its characters (cs).                *)

JsValue(type, s, cs, arr) == [type |-> type, s |-> s, cs |-> cs, arr |-> arr]
JsUndefined == JsValue("undefined", "", << >>, << >>)
JsString(s) == JsValue("string", s, << >>, << >>)
JsText(cs) == JsValue("string", "", cs, << >>)
JsNumber(s) == JsValue("number", s, << >>, << >>)
JsArray(arr) == JsValue("array", "", << >>, arr)

IsEmptyString(v) == v.type = "string" /\ v.s = "" /\ v.cs = << >>

Truthy(v) ==
    CASE v.type = "string" -> ~IsEmptyString(v)
      [] v.type = "number" -> v.s # "0"
      [] v.type = "array" -> TRUE
      [] OTHER -> FALSE

\* v || fallback
OrElse(v, fallback) == IF Truthy(v) THEN v ELSE fallback

----------------------------------------------------------------------------
(* Completion text: a sequence of tokens, "{", "}", a run of prose, or a   *)
(* "key": value member.  An object is decodable when it is "{", members,   *)
(* "}" (member values are strings, numbers and arrays of strings).         *)

Tok(t, k, v) == [t |-> t, k |-> k, v |-> v]
LBrace == Tok("{", "", JsUndefined)
RBrace == Tok("}", "", JsUndefined)
Prose == Tok("prose", "", JsUndefined)
Member(k, v) == Tok("member", k, v)

NoMatch == [found |-> FALSE, str |-> << >>]

\* response.match(/\{[\s\S]*\}/): from the first "{" to the last "}"
JsonMatch(response) ==
    LET opens == {i \in 1..Len(response) : response[i] = LBrace}
        closes == {i \in 1..Len(response) : response[i] = RBrace}
    IN IF opens = {} \/ closes = {} THEN NoMatch
       ELSE LET first == CHOOSE i \in opens : \A j \in opens : i <= j
                last == CHOOSE i \in closes : \A j \in closes : j <= i
            IN IF first < last
               THEN [found |-> TRUE, str |-> SubSeq(response, first, last)]
               ELSE NoMatch

\* mutant: a substring JSON.parse rejects is taken as an object without members
JsonValidAlways(str) == TRUE

\* JSON.parse(str) returns instead of throwing
JsonValid(str) ==
    /\ Len(str) >= 2
    /\ str[1] = LBrace
    /\ str[Len(str)] = RBrace
    /\ \A i \in 2..(Len(str) - 1) : str[i].t = "member"

SyntaxErrorMessage == "Unexpected token in JSON"

\* parsed.key on the object JSON.parse returns (the last member wins)
Get(parsed, key) ==
    LET at == {i \in 1..Len(parsed) : parsed[i].t = "member" /\ parsed[i].k = key}
    IN IF at = {} THEN JsUndefined
       ELSE parsed[CHOOSE i \in at : \A j \in at : j <= i].v

\* mutant: a fourth value is let through
ConfidencesWide == {"high", "medium", "low", "certain"}

Confidences == {"high", "medium", "low"}

ParsedFinding(snippet, parsed) ==
    [html_context |-> snippet,
     primary_audience |-> OrElse(Get(parsed, "primary_audience"), JsString("mixed/other")),
     task_category |-> OrElse(Get(parsed, "task_category"), JsString("generic_system_reference")),
     reference_type |-> OrElse(Get(parsed, "reference_type"), JsString("informational_reference")),
     workday_feature |-> OrElse(Get(parsed, "workday_feature"),
                                JsString("Workday - unified cloud-based system")),
     proposed_replacement |-> OrElse(Get(parsed, "proposed_replacement"), JsText(snippet)),
     suggested_keywords |-> IF Get(parsed, "suggested_keywords").type = "array"
                            THEN Get(parsed, "suggested_keywords")
                            ELSE JsArray(<<"Workday">>),
     confidence |-> IF /\ Get(parsed, "confidence").type = "string"
                       /\ Get(parsed, "confidence").s \in Confidences
                    THEN Get(parsed, "confidence").s
                    ELSE "low",
     notes |-> Get(parsed, "notes")]

FallbackFinding(snippet, notes) ==
    [html_context |-> snippet,
     primary_audience |-> JsString("mixed/other"),
     task_category |-> JsString("generic_system_reference"),
     reference_type |-> JsString("informational_reference"),
     workday_feature |-> JsString("Workday - unified cloud-based system"),
     proposed_replacement |-> JsText(ReplaceLegacy(snippet)),
     suggested_keywords |-> JsArray(<<"Workday">>),
     confidence |-> "low",
     notes |-> notes]

CouldNotBeParsed == "AI response could not be parsed"
AnalysisFailed == "Analysis failed"

\* err instanceof Error ? err.message : 'Analysis failed'
ErrorNotes(err) == IF err.isError THEN JsString(err.message) ELSE JsString(AnalysisFailed)

\* the body of the try block once chatCompletion has returned `response`
FindingFromResponse(snippet, response) ==
    LET jsonMatch == JsonMatch(response)
    IN IF jsonMatch.found
       THEN IF JsonValid(jsonMatch.str)
            THEN ParsedFinding(snippet, jsonMatch.str)
            ELSE FallbackFinding(snippet, JsString(SyntaxErrorMessage))
       ELSE FallbackFinding(snippet, JsString(CouldNotBeParsed))

\* what the completion service answers: message content, possibly null
NullContent == [present |-> FALSE, text |-> << >>]
Content(text) == [present |-> TRUE, text |-> text]

\* response.choices[0]?.message?.content || ''
chatCompletion(content) == IF content.present THEN content.text ELSE << >>

MissingApiKey == "OpenAI API key must be set in .env.local (OPENAI_API_KEY=sk-proj-...)"

\* what chatCompletion throws
CompletionErrors == { [isError |-> TRUE, message |-> MissingApiKey] }

RespObject ==
    << Prose, LBrace,
       Member("primary_audience", JsString("students")),
       Member("task_category", JsString("registration_and_academic_planning")),
       Member("reference_type", JsString("action_portal")),
       Member("workday_feature", JsString("Workday Student")),
       Member("proposed_replacement", JsString("Log in to Workday")),
       Member("suggested_keywords", JsArray(<<"Workday", "registration", "students">>)),
       Member("confidence", JsString("high")),
       Member("notes", JsString("")),
       RBrace, Prose >>

RespProse == << Prose >>
RespBroken == << LBrace, Prose, RBrace >>
Responses == {RespObject, RespProse, RespBroken}

Contents == {Content(r) : r \in Responses} \cup {NullContent}

----------------------------------------------------------------------------
(* Analyze route: POST /api/website/analyze *)

UrlsRequired == "urls array is required"
TooManyAnalyzeUrls == "Maximum 500 URLs per request"
MaxAnalyzeAllowed == 500

\* the pages the analyzed site can serve
Page(title, body) == [title |-> title, body |-> body]
PageNews == Page(<<" ", "N", "e", "w", "s", " ">>, TextNews)
PageCougar == Page(<< >>, TextCougar)
PageShort == Page(<< >>, TextShort)
PagePlain == Page(<< >>, TextPlain)
PageBoth == Page(<< >>, TextBoth)
AnalyzePages == {PageNews, PageCougar, PageShort, PagePlain, PageBoth}

\* the page as served: an optional <title> element, then markup-free text
\* .replace(/<[^>]+>/g, ' ') leaves a space for each of the two title tags
TagsStripped(page) ==
    IF page.title = << >> THEN page.body
    ELSE <<" ">> \o page.title \o <<" ">> \o page.body

\* fetchPageContent on a response that carries data
PageContent(page) ==
    [text |-> PageText(TagsStripped(page)), title |-> Trim(page.title)]

PageUrls == <<"p1", "p2", "p3", "p4">>

UrlsValue(kind, items) == [kind |-> kind, items |-> items]
UrlsInputs ==
    {UrlsValue("array", SubSeq(PageUrls, 1, n)) : n \in 0..MaxAnalyzeUrls}
    \cup { UrlsValue("array", <<"p1", "p1">>),
           UrlsValue("array", [i \in 1..(MaxAnalyzeAllowed + 1) |-> "p1"]),
           UrlsValue("absent", << >>),
           UrlsValue("string", << >>) }

NoHints == [keywords |-> << >>, workStreamAreas |-> << >>]
SomeHints == [keywords |-> <<"payroll">>, workStreamAreas |-> <<"HR", "Finance">>]

AnalyzeRequest(u, h) ==
    [urls |-> u, keywords |-> h.keywords, workStreamAreas |-> h.workStreamAreas]

\* every urls value without hints, and the one-page request with hints
AnalyzeRequests ==
    {AnalyzeRequest(u, NoHints) : u \in UrlsInputs}
    \cup {AnalyzeRequest(UrlsValue("array", <<"p1">>), SomeHints)}

NoAnalyzeResponse == [status |-> 0, success |-> FALSE, error |-> "", results |-> << >>]

AnalyzeIdle ==
    /\ areq = AnalyzeRequest(UrlsValue("absent", << >>), NoHints)
    /\ apc = "idle"
    /\ aIdx = 0
    /\ sIdx = 0
    /\ pageTitle = << >>
    /\ snippets = << >>
    /\ findings = << >>
    /\ results = << >>
    /\ pageLog = << >>
    /\ callLog = << >>
    /\ aresp = NoAnalyzeResponse

InitAnalyze ==
    /\ areq \in AnalyzeRequests
    /\ apc = "request"
    /\ aIdx = 0
    /\ sIdx = 0
    /\ pageTitle = << >>
    /\ snippets = << >>
    /\ findings = << >>
    /\ results = << >>
    /\ pageLog = << >>
    /\ callLog = << >>
    /\ aresp = NoAnalyzeResponse

\* mutant: the test of the length cap is missing
AnalyzeValidationNoCap(body) ==
    IF body.urls.kind # "array" \/ Len(body.urls.items) = 0 THEN UrlsRequired
    ELSE ""

\* !urls || !Array.isArray(urls) || urls.length === 0, then urls.length > 500
AnalyzeValidation(body) ==
    IF body.urls.kind # "array" \/ Len(body.urls.items) = 0 THEN UrlsRequired
    ELSE IF Len(body.urls.items) > MaxAnalyzeAllowed THEN TooManyAnalyzeUrls
    ELSE ""

AnalyzePOST ==
    /\ apc = "request"
    /\ IF AnalyzeValidation(areq) # ""
       THEN /\ apc' = "done"
            /\ aresp' = [status |-> 400, success |-> FALSE,
                         error |-> AnalyzeValidation(areq), results |-> << >>]
            /\ UNCHANGED aIdx
       ELSE /\ apc' = "page"
            /\ aIdx' = 1
            /\ UNCHANGED aresp
    /\ UNCHANGED <<areq, sIdx, pageTitle, snippets, findings, results, pageLog, callLog>>
    /\ UNCHANGED <<canonVars, scanVars, unitVars>>

\* results.push(result), then the next url or the final response
PushResult(result) ==
    /\ results' = Append(results, result)
    /\ IF aIdx = Len(areq.urls.items)
       THEN /\ apc' = "done"
            /\ aresp' = [status |-> 200, success |-> TRUE, error |-> "",
                         results |-> Append(results, result)]
            /\ UNCHANGED aIdx
       ELSE /\ apc' = "page"
            /\ aIdx' = aIdx + 1
            /\ UNCHANGED aresp

\* fetchPageContent returns null: the GET threw, or carried no data
PageFetchFail ==
    /\ apc = "page"
    /\ pageLog' = Append(pageLog, [url |-> areq.urls.items[aIdx], ok |-> FALSE, detected |-> << >>])
    /\ PushResult([url |-> areq.urls.items[aIdx], pageTitle |-> << >>,
                   hasLegacyReferences |-> FALSE, findings |-> << >>])
    /\ UNCHANGED <<areq, sIdx, pageTitle, snippets, findings, callLog>>
    /\ UNCHANGED <<canonVars, scanVars, unitVars>>

PageFetchOk ==
    /\ apc = "page"
    /\ \E page \in AnalyzePages :
         LET pageContent == PageContent(page)
             found == findLegacySnippets(pageContent.text)
         IN /\ pageLog' = Append(pageLog, [url |-> areq.urls.items[aIdx], ok |-> TRUE,
                                           detected |-> found])
            /\ IF Len(found) = 0
               THEN /\ PushResult([url |-> areq.urls.items[aIdx],
                                   pageTitle |-> pageContent.title,
                                   hasLegacyReferences |-> FALSE, findings |-> << >>])
                    /\ UNCHANGED <<sIdx, pageTitle, snippets, findings>>
               ELSE /\ apc' = "snippet"
                    /\ sIdx' = 1
                    /\ pageTitle' = pageContent.title
                    /\ snippets' = found
                    /\ findings' = << >>
                    /\ UNCHANGED <<aIdx, results, aresp>>
    /\ UNCHANGED <<areq, callLog>>
    /\ UNCHANGED <<canonVars, scanVars, unitVars>>

\* workStreamHint / keywordHint: empty unless the list has entries
Hint(list) == [present |-> Len(list) > 0, joined |-> list]

Prompt(snippet) ==
    [snippet |-> snippet,
     workStreamHint |-> Hint(areq.workStreamAreas),
     keywordHint |-> Hint(areq.keywords)]

\* findings.push(finding), then the next snippet or the page's result
PushFinding(finding) ==
    /\ findings' = Append(findings, finding)
    /\ IF sIdx = Len(snippets)
       THEN /\ PushResult([url |-> areq.urls.items[aIdx], pageTitle |-> pageTitle,
                           hasLegacyReferences |-> TRUE,
                           findings |-> Append(findings, finding)])
            /\ UNCHANGED sIdx
       ELSE /\ sIdx' = sIdx + 1
            /\ UNCHANGED <<apc, aIdx, results, aresp>>

CompletionReturns ==
    /\ apc = "snippet"
    /\ \E content \in Contents :
         LET snippet == snippets[sIdx].snippet
             response == chatCompletion(content)
         IN /\ callLog' = Append(callLog, [page |-> aIdx, snippet |-> sIdx,
                                           prompt |-> Prompt(snippet), threw |-> FALSE,
                                           response |-> response, message |-> ""])
            /\ PushFinding(FindingFromResponse(snippet, response))
    /\ UNCHANGED <<areq, pageTitle, snippets, pageLog>>
    /\ UNCHANGED <<canonVars, scanVars, unitVars>>

\* mutant: the error of the completion call escapes the loop and POST answers 500
CompletionThrowsAborts ==
    /\ apc = "snippet"
    /\ \E err \in CompletionErrors :
         /\ callLog' = Append(callLog, [page |-> aIdx, snippet |-> sIdx,
                                        prompt |-> Prompt(snippets[sIdx].snippet),
                                        threw |-> TRUE, response |-> << >>,
                                        message |-> err.message])
         /\ aresp' = [status |-> 500, success |-> FALSE, error |-> err.message,
                      results |-> << >>]
    /\ apc' = "done"
    /\ UNCHANGED <<areq, aIdx, sIdx, pageTitle, snippets, findings, results, pageLog>>
    /\ UNCHANGED <<canonVars, scanVars, unitVars>>

\* mutant: the catch block pushes no finding
CompletionThrowsSkips ==
    /\ apc = "snippet"
    /\ \E err \in CompletionErrors :
         callLog' = Append(callLog, [page |-> aIdx, snippet |-> sIdx,
                                     prompt |-> Prompt(snippets[sIdx].snippet),
                                     threw |-> TRUE, response |-> << >>,
                                     message |-> err.message])
    /\ IF sIdx = Len(snippets)
       THEN /\ PushResult([url |-> areq.urls.items[aIdx], pageTitle |-> pageTitle,
                           hasLegacyReferences |-> TRUE, findings |-> findings])
            /\ UNCHANGED sIdx
       ELSE /\ sIdx' = sIdx + 1
            /\ UNCHANGED <<apc, aIdx, results, aresp>>
    /\ UNCHANGED <<areq, pageTitle, snippets, findings, pageLog>>
    /\ UNCHANGED <<canonVars, scanVars, unitVars>>

\* mutant: after a throw the call is issued again for the same snippet
CompletionThrowsRetries ==
    /\ apc = "snippet"
    /\ \E err \in CompletionErrors :
         callLog' = Append(callLog, [page |-> aIdx, snippet |-> sIdx,
                                     prompt |-> Prompt(snippets[sIdx].snippet),
                                     threw |-> TRUE, response |-> << >>,
                                     message |-> err.message])
    /\ UNCHANGED <<areq, apc, aIdx, sIdx, pageTitle, snippets, findings, results, pageLog,
                   aresp>>
    /\ UNCHANGED <<canonVars, scanVars, unitVars>>

\* chatCompletion throws: no API key, timeout, transport error
CompletionThrows ==
    /\ apc = "snippet"
    /\ \E err \in CompletionErrors :
         LET snippet == snippets[sIdx].snippet
         IN /\ callLog' = Append(callLog, [page |-> aIdx, snippet |-> sIdx,
                                           prompt |-> Prompt(snippet), threw |-> TRUE,
                                           response |-> << >>, message |-> err.message])
            /\ PushFinding(FallbackFinding(snippet, ErrorNotes(err)))
    /\ UNCHANGED <<areq, pageTitle, snippets, pageLog>>
    /\ UNCHANGED <<canonVars, scanVars, unitVars>>

----------------------------------------------------------------------------
(* Detector harness: a page body is drawn, fetchPageContent derives its    *)
(* text and findLegacySnippets is applied to it.  A body is a lead-in, a   *)
(* mention of a legacy term and a continuation.                            *)

PreNone == << >>

PreSee ==
    << "S", "e", "e", " " >>

PreLong ==
    << "T", "h", "e", " ", "l", "i", "b", "r", "a", "r", "y", ",", " ", "t",
       "h", "e", " ", "g", "y", "m", ",", " ", "t", "h", "e", " ", "c", "a",
       "f", "e", " ", "a", "n", "d", " ", "t", "h", "e", " ", "q", "u", "a",
       "d", " ", "a", "r", "e", " ", "o", "p", "e", "n", " ", "t", "o", " ",
       "a", "l", "l", " ", "v", "i", "s", "i", "t", "o", "r", "s", " ", "o",
       "n", " ", "e", "v", "e", "r", "y", " ", "d", "a", "y", " ", "o", "f",
       " ", "t", "h", "i", "s", " ", "w", "e", "e", "k", " ", "u", "n", "t",
       "i", "l", " ", "n", "o", "o", "n", ".", " " >>

MentionCougarWeb ==
    << "C", "o", "u", "g", "a", "r", "W", "e", "b" >>

MentionCougarSpaceWeb ==
    << "C", "o", "u", "g", "a", "r", " ", "W", "e", "b" >>

MentionMixedCase ==
    << "c", "O", "U", "G", "A", "R", " ", "\n", "w", "e", "b" >>

MentionColleague ==
    << "c", "o", "l", "l", "e", "a", "g", "u", "e" >>

MentionColleagueCap ==
    << "C", "o", "l", "l", "e", "a", "g", "u", "e" >>

PostNone == << >>

PostNow ==
    << " ", "n", "o", "w" >>

PostRecords ==
    << " ", "f", "o", "r", " ", "t", "h", "e", " ", "s", "t", "u", "d", "e",
       "n", "t", " ", "r", "e", "c", "o", "r", "d", "s", " ", "s", "y", "s",
       "t", "e", "m", " ", "t", "o", "d", "a", "y" >>

PostCut ==
    << " ", "w", "h", "o", " ", "k", "e", "e", "p", "s", " ", "t", "h", "e",
       " ", "k", "e", "y", "s", " ", "t", "o", " ", "t", "h", "e", " ", "l",
       "a", "b", " ", "a", "n", "d", " ", "t", "h", "e", " ", "g", "y", "m",
       " ", "a", "n", "d", " ", "o", "p", "e", "n", "s", " ", "b", "o", "t",
       "h", " ", "r", "o", "o", "m", "s", " ", "a", "t", " ", "t", "e", "n",
       " ", "o", "n", " ", "a", "l", "l", " ", "d", "a", "y", "s", " ", "a",
       " ", "s", "y", "s", "t", "e", "m", "a", "t", "i", "c", " ", "r", "e",
       "v", "i", "e", "w" >>

PostAgain ==
    << " ", "a", "n", "d", " ", "C", "o", "u", "g", "a", "r", "W", "e", "b",
       " ", "a", "g", "a", "i", "n" >>

Pres == {PreNone, PreSee, PreLong}
Mentions ==
    {MentionCougarWeb, MentionCougarSpaceWeb, MentionMixedCase, MentionColleague,
     MentionColleagueCap}
Posts == {PostNone, PostNow, PostRecords, PostCut, PostAgain}

\* the built bodies, and a page that mentions both legacy systems
DetectorBodies == {a \o m \o b : a \in Pres, m \in Mentions, b \in Posts} \cup {TextBoth}

DetectIdle == dPc = "idle" /\ dBody = << >> /\ dOut = << >>

InitDetect == dPc = "input" /\ dBody \in DetectorBodies /\ dOut = << >>

\* fetchPageContent's text, then findLegacySnippets(pageContent.html, pageContent.text)
Detect ==
    /\ dPc = "input"
    /\ dOut' = findLegacySnippets(PageText(dBody))
    /\ dPc' = "done"
    /\ UNCHANGED dBody
    /\ UNCHANGED <<canonVars, scanVars, analyzeVars, classifyVars, clientVars>>

----------------------------------------------------------------------------
(* Classifier harness: a snippet and an outcome of the completion call are *)
(* drawn, and the try/catch of the snippet loop is applied to them.  The   *)
(* objects the model may answer carry any mix of members.                  *)

JsNull == JsValue("null", "", << >>, << >>)

\* a member, or nothing when the object does not carry the key
Opt(k, v) == IF v = JsUndefined THEN << >> ELSE <<Member(k, v)>>

\* primary_audience, task_category and reference_type of a response
EnumTriples ==
    { <<JsUndefined, JsUndefined, JsUndefined>>,
      <<JsString("students"), JsString("hr_time_payroll"), JsString("action_portal")>>,
      <<JsString("alumni"), JsString("billing"), JsString("link")>>,
      <<JsString(""), JsNull, JsNumber("0")>> }

KeywordValues ==
    { JsUndefined,
      JsArray(<< >>),
      JsArray(<<"Workday">>),
      JsArray(<<"Workday", "registration", "students">>),
      JsArray(<<"Workday", "a", "b", "c", "d", "e", "f">>),
      JsString("Workday, registration, students") }

ConfidenceValues ==
    { JsUndefined, JsString("high"), JsString("medium"), JsString("low"),
      JsString("certain"), JsString("High"), JsString(""), JsNumber("1") }

NotesValues == { JsUndefined, JsString("unclear context") }

ObjectOf(e, kw, c, n) ==
    <<LBrace>> \o Opt("primary_audience", e[1]) \o Opt("task_category", e[2])
               \o Opt("reference_type", e[3]) \o Opt("suggested_keywords", kw)
               \o Opt("confidence", c) \o Opt("notes", n) \o <<RBrace>>

Objects ==
    {ObjectOf(e, kw, c, n) : e \in EnumTriples, kw \in KeywordValues,
                             c \in ConfidenceValues, n \in NotesValues}

RespTwoObjects ==
    << LBrace, Member("confidence", JsString("high")), RBrace, Prose,
       LBrace, Member("confidence", JsString("medium")), RBrace >>

ClassifyContents ==
    {Content(o) : o \in Objects} \cup Contents \cup {Content(RespTwoObjects)}

NoError == [isError |-> FALSE, message |-> ""]
Returns(content) == [threw |-> FALSE, content |-> content, err |-> NoError]
Throws(err) == [threw |-> TRUE, content |-> NullContent, err |-> err]

ClassifyOutcomes ==
    {Returns(c) : c \in ClassifyContents} \cup {Throws(e) : e \in CompletionErrors}

\* the snippets the detector cuts from two of the pages
ClassifySnippets ==
    {findLegacySnippets(PageText(TextCougar))[1].snippet,
     findLegacySnippets(PageText(TextBoth))[2].snippet}

NoFinding == FallbackFinding(<< >>, JsUndefined)

ClassifyIdle ==
    /\ kPc = "idle"
    /\ kSnippet = << >>
    /\ kOutcome = Throws(NoError)
    /\ kFinding = NoFinding

InitClassify ==
    /\ kPc = "input"
    /\ kSnippet \in ClassifySnippets
    /\ kOutcome \in ClassifyOutcomes
    /\ kFinding = NoFinding

\* the try/catch around one completion call, and the finding it pushes
Classify ==
    /\ kPc = "input"
    /\ kFinding' = IF kOutcome.threw
                   THEN FallbackFinding(kSnippet, ErrorNotes(kOutcome.err))
                   ELSE FindingFromResponse(kSnippet, chatCompletion(kOutcome.content))
    /\ kPc' = "done"
    /\ UNCHANGED <<kSnippet, kOutcome>>
    /\ UNCHANGED <<canonVars, scanVars, analyzeVars, detectVars, clientVars>>

----------------------------------------------------------------------------
(* Client: the WebsiteScanner component.  Its URL list (scannedURLs), the  *)
(* master list, the browser's storage, and the handlers that change them.  *)

\* ScannedUrl.analysis when the record has none
NoAnalysis ==
    [present |-> FALSE, pageTitle |-> "", hasLegacyReferences |-> FALSE, findings |-> << >>]

\* a record as the scan, load and storage paths create it
PendingUrl(url, depth) ==
    [url |-> url, depth |-> depth, status |-> "pending", analysis |-> NoAnalysis]

\* Map.set(key, value): a known key keeps its place and takes the new value
MapSet(m, key, value) ==
    IF \E i \in DOMAIN m : m[i].key = key
    THEN [i \in DOMAIN m |-> IF m[i].key = key THEN [key |-> key, value |-> value] ELSE m[i]]
    ELSE Append(m, [key |-> key, value |-> value])

\* mutant: an entry whose key is known is not stored again
RECURSIVE SetAllKeepFirst(_, _)
SetAllKeepFirst(m, list) ==
    IF list = << >> THEN m
    ELSE SetAllKeepFirst(
             IF \E i \in DOMAIN m : m[i].key = normalizeUrlForCompare(Head(list).url)
             THEN m
             ELSE Append(m, [key |-> normalizeUrlForCompare(Head(list).url),
                             value |-> Head(list)]),
             Tail(list))

\* for (const s of list) byUrl.set(normalizeUrlForCompare(s.url), s)
RECURSIVE SetAll(_, _)
SetAll(m, list) ==
    IF list = << >> THEN m
    ELSE SetAll(MapSet(m, normalizeUrlForCompare(Head(list).url), Head(list)), Tail(list))

mergeUrlLists(existing, incoming) ==
    LET byUrl == SetAll(SetAll(<< >>, existing), incoming)
    IN [i \in DOMAIN byUrl |-> byUrl[i].value]

\* the URLs of the client's fixtures
uHome == Url("http", ExampleEdu, << >>)            \* http://example.edu
uA == Url("http", ExampleEdu, <<"a">>)             \* http://example.edu/a
uASlash == Url("http", ExampleEdu, <<"a", "">>)    \* http://example.edu/a/
uB == Url("http", ExampleEdu, <<"b">>)             \* http://example.edu/b

UrlData(url, depth) == [url |-> url, depth |-> depth]

\* data.urls of a successful scan response
ScanResponses ==
    { << UrlData(uHome, 0), UrlData(uA, 1) >>,
      << UrlData(uB, 0), UrlData(uASlash, 2) >> }

\* the entries of an uploaded or pasted list, before they are normalized
LoadTexts ==
    { << UrlData(uASlash, 0) >>,
      << UrlData(uB, 0), UrlData(uA, 3), UrlData(uASlash, 0) >> }

\* parse(text) of handleLoadUrls
Parse(text) ==
    [i \in DOMAIN text |-> PendingUrl(normalizeUrlForCompare(text[i].url), text[i].depth)]

\* localStorage.getItem(MASTER_URLS_KEY)
NoStorage == [present |-> FALSE, items |-> << >>]
Stored(items) == [present |-> TRUE, items |-> items]
StorageInputs == { NoStorage, Stored(<< UrlData(uASlash, 1) >>) }

\* one entry of data.results of the analyze route
CleanResult(url) ==
    [url |-> url, pageTitle |-> "", hasLegacyReferences |-> FALSE, findings |-> << >>]
LegacyResult(url) ==
    [url |-> url, pageTitle |-> "Page", hasLegacyReferences |-> TRUE,
     findings |-> <<"finding">>]

\* data.results for a request that carried list: one result for each URL
AnalysisResults(list) ==
    { [i \in DOMAIN list |-> IF legacy[i] THEN LegacyResult(list[i]) ELSE CleanResult(list[i])] :
         legacy \in [DOMAIN list -> BOOLEAN] }

NoReport ==
    [built |-> FALSE, totalUrlsScanned |-> 0, urlsWithLegacyReferences |-> 0,
     urlList |-> << >>, recommendedUpdates |-> << >>]
NoMerge == [called |-> FALSE, existing |-> << >>, incoming |-> << >>, out |-> << >>]
MergeCall(existing, incoming) ==
    [called |-> TRUE, existing |-> existing, incoming |-> incoming,
     out |-> mergeUrlLists(existing, incoming)]

ClientIdle ==
    /\ cPhase = "idle" /\ cSteps = 0
    /\ scannedURLs = << >> /\ masterUrlList = << >> /\ storage = NoStorage
    /\ isScanning = FALSE /\ currentMaster = << >>
    /\ isAnalyzing = FALSE /\ urlList = << >>
    /\ report = NoReport /\ mergeLog = NoMerge

\* the component after its first render, before the mount effect has run
InitClient ==
    /\ cPhase = "mount" /\ cSteps = 0
    /\ scannedURLs = << >> /\ masterUrlList = << >>
    /\ storage \in StorageInputs
    /\ isScanning = FALSE /\ currentMaster = << >>
    /\ isAnalyzing = FALSE /\ urlList = << >>
    /\ report = NoReport /\ mergeLog = NoMerge

otherVars == <<canonVars, scanVars, analyzeVars, detectVars, classifyVars>>

\* the list loadMasterFromStorage builds from the stored value
StoredList ==
    [i \in DOMAIN storage.items |->
        PendingUrl(normalizeUrlForCompare(storage.items[i].url), storage.items[i].depth)]

\* loadMasterFromStorage: its effect on the two lists
LoadMasterFromStorage ==
    IF storage.present
    THEN /\ masterUrlList' = StoredList
         /\ scannedURLs' = StoredList
    ELSE /\ masterUrlList' = << >>
         /\ UNCHANGED scannedURLs

\* the user may start another operation
CanStart == cPhase = "ready" /\ cSteps < MaxClientSteps

\* useEffect(() => loadMasterFromStorage())
ClientMount ==
    /\ cPhase = "mount"
    /\ LoadMasterFromStorage
    /\ cPhase' = "ready"
    /\ UNCHANGED <<cSteps, storage, isScanning, currentMaster, isAnalyzing, urlList,
                   report, mergeLog>>
    /\ UNCHANGED otherVars

\* handleScan with a valid start URL, up to the await of the request
ClientScanStart ==
    /\ CanStart
    /\ ~isScanning
    /\ cSteps' = cSteps + 1
    /\ isScanning' = TRUE
    /\ IF masterUrlList # << >>
       THEN /\ currentMaster' = masterUrlList
            /\ UNCHANGED <<masterUrlList, scannedURLs>>
       ELSE /\ LoadMasterFromStorage
            /\ currentMaster' = IF storage.present THEN StoredList ELSE << >>
    /\ UNCHANGED <<cPhase, storage, isAnalyzing, urlList, report, mergeLog>>
    /\ UNCHANGED otherVars

\* handleScan: the response carries success and urls
ClientScanDone ==
    /\ isScanning
    /\ \E data \in ScanResponses :
         LET newEntries == [i \in DOMAIN data |-> PendingUrl(data[i].url, data[i].depth)]
             merged == mergeUrlLists(currentMaster, newEntries)
         IN /\ scannedURLs' = merged
            /\ masterUrlList' = merged
            /\ mergeLog' = MergeCall(currentMaster, newEntries)
    /\ isScanning' = FALSE
    /\ currentMaster' = << >>
    /\ UNCHANGED <<cPhase, cSteps, storage, isAnalyzing, urlList, report>>
    /\ UNCHANGED otherVars

\* handleScan: the request failed or the response carries an error
ClientScanFails ==
    /\ isScanning
    /\ isScanning' = FALSE
    /\ currentMaster' = << >>
    /\ UNCHANGED <<cPhase, cSteps, scannedURLs, masterUrlList, storage, isAnalyzing,
                   urlList, report, mergeLog>>
    /\ UNCHANGED otherVars

\* handleLoadUrls with a file or pasted text that holds URLs
ClientLoad ==
    /\ CanStart
    /\ cSteps' = cSteps + 1
    /\ \E text \in LoadTexts :
         /\ scannedURLs' = mergeUrlLists(scannedURLs, Parse(text))
         /\ masterUrlList' = mergeUrlLists(masterUrlList, Parse(text))
         /\ mergeLog' = MergeCall(scannedURLs, Parse(text))
    /\ UNCHANGED <<cPhase, storage, isScanning, currentMaster, isAnalyzing, urlList,
                   report>>
    /\ UNCHANGED otherVars

\* handleSaveUrls
ClientSave ==
    /\ CanStart
    /\ scannedURLs # << >>
    /\ cSteps' = cSteps + 1
    /\ storage' = Stored([i \in DOMAIN scannedURLs |->
                            UrlData(scannedURLs[i].url, scannedURLs[i].depth)])
    /\ masterUrlList' = scannedURLs
    /\ UNCHANGED <<cPhase, scannedURLs, isScanning, currentMaster, isAnalyzing, urlList,
                   report, mergeLog>>
    /\ UNCHANGED otherVars

\* handleAnalyze up to the await of the request
ClientAnalyzeStart ==
    /\ CanStart
    /\ ~isAnalyzing
    /\ scannedURLs # << >>
    /\ cSteps' = cSteps + 1
    /\ isAnalyzing' = TRUE
    /\ urlList' = [i \in DOMAIN scannedURLs |-> scannedURLs[i].url]
    /\ UNCHANGED <<cPhase, scannedURLs, masterUrlList, storage, isScanning,
                   currentMaster, report, mergeLog>>
    /\ UNCHANGED otherVars

\* prev.map(...) of handleAnalyze: the record takes the first result whose
\* url is its own
WithResult(scanned, res) ==
    LET at == {k \in DOMAIN res : res[k].url = scanned.url}
    IN IF at = {} THEN scanned
       ELSE LET result == res[CHOOSE k \in at : \A j \in at : k <= j]
            IN [scanned EXCEPT !.status = "analyzed",
                               !.analysis = [present |-> TRUE,
                                             pageTitle |-> result.pageTitle,
                                             hasLegacyReferences |-> result.hasLegacyReferences,
                                             findings |-> result.findings]]

\* handleAnalyze: the response carries success and results
ClientAnalyzeDone ==
    /\ isAnalyzing
    /\ \E res \in AnalysisResults(urlList) :
         scannedURLs' = [i \in DOMAIN scannedURLs |-> WithResult(scannedURLs[i], res)]
    /\ isAnalyzing' = FALSE
    /\ urlList' = << >>
    /\ UNCHANGED <<cPhase, cSteps, masterUrlList, storage, isScanning, currentMaster,
                   report, mergeLog>>
    /\ UNCHANGED otherVars

\* handleAnalyze: the request failed or the response is not usable
ClientAnalyzeFails ==
    /\ isAnalyzing
    /\ isAnalyzing' = FALSE
    /\ urlList' = << >>
    /\ UNCHANGED <<cPhase, cSteps, scannedURLs, masterUrlList, storage, isScanning,
                   currentMaster, report, mergeLog>>
    /\ UNCHANGED otherVars

\* mutant: the filter lets every record through
HasFindingsAlways(s) == TRUE

\* the filter of urlsWithFindings
HasFindings(s) ==
    /\ s.analysis.present
    /\ s.analysis.hasLegacyReferences
    /\ Len(s.analysis.findings) > 0

urlsWithFindings == SelectSeq(scannedURLs, HasFindings)

reportData ==
    [built |-> TRUE,
     totalUrlsScanned |-> Len(scannedURLs),
     urlsWithLegacyReferences |-> Len(urlsWithFindings),
     urlList |-> [i \in DOMAIN scannedURLs |->
                     UrlData(scannedURLs[i].url, scannedURLs[i].depth)],
     recommendedUpdates |-> [i \in DOMAIN urlsWithFindings |->
                                [url |-> urlsWithFindings[i].url,
                                 pageTitle |-> urlsWithFindings[i].analysis.pageTitle,
                                 findings |-> urlsWithFindings[i].analysis.findings]]]

\* exportReport: the report is built from the current state
ClientExport ==
    /\ CanStart
    /\ cSteps' = cSteps + 1
    /\ report' = reportData
    /\ UNCHANGED <<cPhase, scannedURLs, masterUrlList, storage, isScanning,
                   currentMaster, isAnalyzing, urlList, mergeLog>>
    /\ UNCHANGED otherVars

UnitIdle == DetectIdle /\ ClassifyIdle /\ ClientIdle

----------------------------------------------------------------------------
(* Specifications *)

Init == InitScan /\ CanonIdle /\ AnalyzeIdle /\ UnitIdle
Next == ScanPOST \/ Dequeue \/ FetchOk \/ FetchFail \/ Return
Spec == Init /\ [][Next]_vars

\* the crawl under its scheduling: the handler's loop runs on, and every
\* awaited fetch settles (axios resolves, rejects or times out after 10 s)
SpecFair == Spec /\ WF_vars(Next)

\* the crawl of the campus site
InitS == InitSite /\ CanonIdle /\ AnalyzeIdle /\ UnitIdle
SpecSite == InitS /\ [][Next]_vars

InitC == InitCanon /\ ScanIdle /\ AnalyzeIdle /\ UnitIdle
NextCanon == CanonRoute \/ CanonClient
SpecCanon == InitC /\ [][NextCanon]_vars

InitA == InitAnalyze /\ CanonIdle /\ ScanIdle /\ UnitIdle
NextAnalyze ==
    AnalyzePOST \/ PageFetchFail \/ PageFetchOk \/ CompletionReturns \/ CompletionThrows
SpecAnalyze == InitA /\ [][NextAnalyze]_vars

InitD == InitDetect /\ ClassifyIdle /\ ClientIdle /\ CanonIdle /\ ScanIdle /\ AnalyzeIdle
NextDetect == Detect
SpecDetect == InitD /\ [][NextDetect]_vars

InitK == InitClassify /\ DetectIdle /\ ClientIdle /\ CanonIdle /\ ScanIdle /\ AnalyzeIdle
NextClassify == Classify
SpecClassify == InitK /\ [][NextClassify]_vars

InitU ==
    InitClient /\ DetectIdle /\ ClassifyIdle /\ CanonIdle /\ ScanIdle /\ AnalyzeIdle
NextClient ==
    \/ ClientMount \/ ClientScanStart \/ ClientScanDone \/ ClientScanFails
    \/ ClientLoad \/ ClientSave \/ ClientAnalyzeStart \/ ClientAnalyzeDone
    \/ ClientAnalyzeFails \/ ClientExport
SpecClient == InitU /\ [][NextClient]_vars

\* one crawl and one analysis, each serving its own request, side by side
ScanOfBoth ==
    [url |-> Url("http", ExampleEdu, << >>), maxUrls |-> 2, maxDepth |-> 1,
     excludeUrls |-> << >>]
AnalyzeOfBoth == AnalyzeRequest(UrlsValue("array", <<"p1">>), NoHints)

InitBoth ==
    /\ req = ScanOfBoth
    /\ pc = "request"
    /\ visited = {} /\ urls = << >> /\ queue = << >>
    /\ cur = NoRecord /\ fetchLog = << >> /\ resp = NoResponse
    /\ areq = AnalyzeOfBoth
    /\ apc = "request"
    /\ aIdx = 0 /\ sIdx = 0
    /\ pageTitle = << >> /\ snippets = << >> /\ findings = << >> /\ results = << >>
    /\ pageLog = << >> /\ callLog = << >> /\ aresp = NoAnalyzeResponse
    /\ CanonIdle
    /\ UnitIdle
NextBoth ==
    \/ ScanPOST \/ Dequeue \/ FetchOk \/ FetchFail \/ Return
    \/ AnalyzePOST \/ PageFetchFail \/ PageFetchOk \/ CompletionReturns
    \/ CompletionThrows
SpecBoth == InitBoth /\ [][NextBoth]_vars

----------------------------------------------------------------------------
(* Properties of the crawl *)

Max0(n) == IF n < 0 THEN 0 ELSE n
Range(f) == {f[i] : i \in DOMAIN f}

\* the crawl has started (the request passed validation)
Crawling == pc \in {"loop", "fetching"} \/ (pc = "done" /\ resp.success)
Returned == pc = "done" /\ resp.success

\* the URLs a GET was issued for, whether answered or still in flight
Fetched == {fetchLog[i].url : i \in DOMAIN fetchLog}
             \cup (IF pc = "fetching" THEN {cur.url} ELSE {})
NumFetches == Len(fetchLog) + (IF pc = "fetching" THEN 1 ELSE 0)

\* C1 as stated: at every point of the traversal and at return no record is
\* deeper than maxDepth and the result list holds at most maxUrls records,
\* for every maxUrls and maxDepth the route accepts.
C1_Original ==
    Crawling =>
        /\ \A i \in DOMAIN urls : urls[i].depth <= req.maxDepth
        /\ Len(urls) <= req.maxUrls
        /\ Len(resp.urls) <= req.maxUrls

\* C1 amended: no record is deeper than maxDepth, and the result list holds
\* at most maxUrls records when maxUrls >= 0 and none when maxUrls < 0.
C1_DepthAndCountBounded ==
    Crawling =>
        /\ \A i \in DOMAIN urls : urls[i].depth <= req.maxDepth
        /\ Len(urls) <= Max0(req.maxUrls)
        /\ \A i \in DOMAIN resp.urls : resp.urls[i].depth <= req.maxDepth
        /\ Len(resp.urls) <= Max0(req.maxUrls)
        /\ resp.count = Len(resp.urls)

\* a crawl cut by the count cap, holding a record at the depth cap
C1_Witness ==
    /\ Returned
    /\ req.maxUrls >= 2
    /\ Len(resp.urls) = req.maxUrls
    /\ queue # << >>
    /\ \E i \in DOMAIN resp.urls : resp.urls[i].depth = req.maxDepth

\* C2: a URL listed in the request's excludeUrls is never fetched and never
\* appended to the result list (so it contributes no links either).
C2_ExcludedNeverCrawled ==
    \A e \in Range(req.excludeUrls) :
        /\ e \notin Fetched
        /\ \A i \in DOMAIN urls : urls[i].url # e

\* C6: the frontier queue never holds two entries whose canonical URLs are
\* equal, also when two fetched pages link to the same unvisited URL.
C6_QueueUnique ==
    \A i, j \in DOMAIN queue :
        i < j => Canon(queue[i].url) # Canon(queue[j].url)

\* C7: the result list never holds two records whose canonical forms are
\* equal.
C7_ResultUnique ==
    \A i, j \in DOMAIN urls :
        i < j => Canon(urls[i].url) # Canon(urls[j].url)

SeedHost == validatedUrl(req.url).host
ScenarioPage == <<hA, hRootB, hOther>>

\* C8: every queued entry and every record has the seed host or a subdomain
\* of it; and the seed http://example.edu at maxDepth = 1, whose page links
\* to /a, /b and another site, yields the seed at depth 0 and the two
\* same-site links at depth 1, nothing else.
C8_SameSiteOnly ==
    /\ Crawling =>
         /\ \A i \in DOMAIN queue : SameDomain(queue[i].url.host, SeedHost)
         /\ \A i \in DOMAIN urls : SameDomain(urls[i].url.host, SeedHost)
         /\ \A i \in DOMAIN resp.urls : SameDomain(resp.urls[i].url.host, SeedHost)
    /\ ( /\ Returned
         /\ req.url = hHome /\ req.maxDepth = 1 /\ req.maxUrls >= 3
         /\ fetchLog = << [url |-> hHome, ok |-> TRUE, html |-> ScenarioPage] >> )
       => resp.urls = << [url |-> hHome, depth |-> 0],
                         [url |-> hA, depth |-> 1],
                         [url |-> Url("http", ExampleEdu, <<"b">>), depth |-> 1] >>

\* the scenario's crawl has returned
C8_Witness ==
    /\ Returned
    /\ req.url = hHome /\ req.maxDepth = 1 /\ req.maxUrls >= 3
    /\ fetchLog = << [url |-> hHome, ok |-> TRUE, html |-> ScenarioPage] >>
    /\ Len(resp.urls) = 3

\* the parts of C9 that do not depend on the sign of the caps: a fetch is
\* issued only for the record appended last, with depth < maxDepth and the
\* count under maxUrls; a URL recorded at depth = maxDepth is never fetched
C9_FetchGuard ==
    /\ pc = "fetching" =>
         /\ urls # << >> /\ urls[Len(urls)] = cur
         /\ cur.depth < req.maxDepth
         /\ Len(urls) < req.maxUrls
    /\ \A u \in Fetched :
         \E i \in DOMAIN urls : urls[i].url = u /\ urls[i].depth < req.maxDepth
    /\ \A i \in DOMAIN urls : urls[i].depth = req.maxDepth => urls[i].url \notin Fetched

\* C9 as stated: ... a crawl with maxUrls = 1 returns exactly one record and
\* performs no fetch, and a crawl performs at most maxUrls - 1 fetches.
C9_Original ==
    Crawling =>
        /\ C9_FetchGuard
        /\ (Returned /\ req.maxUrls = 1) => (Len(resp.urls) = 1 /\ NumFetches = 0)
        /\ NumFetches <= req.maxUrls - 1

\* C9 amended: a crawl with maxUrls = 1 returns exactly one record when
\* maxDepth >= 0 (none when maxDepth < 0) and performs no fetch, and a crawl
\* performs at most maxUrls - 1 fetches when maxUrls >= 1 and none otherwise.
C9_FetchOnlyUnderCaps ==
    Crawling =>
        /\ C9_FetchGuard
        /\ (Returned /\ req.maxUrls = 1) =>
              /\ Len(resp.urls) = (IF req.maxDepth >= 0 THEN 1 ELSE 0)
              /\ NumFetches = 0
        /\ NumFetches <= Max0(req.maxUrls - 1)

\* a crawl that used all of its maxUrls - 1 fetches and holds an unfetched
\* record at depth = maxDepth
C9_Witness ==
    /\ Returned
    /\ req.maxUrls >= 3
    /\ NumFetches = req.maxUrls - 1
    /\ \E i \in DOMAIN urls : urls[i].depth = req.maxDepth

\* C10: when the fetch of a crawled URL fails, the URL stays in the result
\* list at its depth, nothing is enqueued for it, and the crawl goes on with
\* the remaining queue: it returns a successful response.
C10_FetchFailureIsolated ==
    /\ [][ (pc = "fetching" /\ Len(fetchLog') > Len(fetchLog)
              /\ ~fetchLog'[Len(fetchLog')].ok)
           => /\ urls' = urls /\ urls[Len(urls)] = cur
              /\ queue' = queue
              /\ visited' = visited
              /\ pc' = "loop"
              /\ resp' = NoResponse ]_vars
    /\ [](\A i \in DOMAIN fetchLog :
            \E k \in DOMAIN urls : urls[k].url = fetchLog[i].url)
    /\ [](pc = "done" /\ fetchLog # << >> => resp.success /\ resp.urls = urls)

\* a crawl that returned a later record after a failed fetch
C10_Witness ==
    /\ Returned
    /\ \E i \in DOMAIN fetchLog :
          /\ ~fetchLog[i].ok
          /\ \E k \in DOMAIN resp.urls :
                /\ resp.urls[k].url = fetchLog[i].url
                /\ k < Len(resp.urls)

\* the request is one the claim says is refused: no seed URL, a seed that
\* is not a URL, maxUrls over 300 or maxDepth over 5
ScanRefusable ==
    \/ req.url.kind = "empty"
    \/ req.url.kind = "bad"
    \/ req.maxUrls > 300
    \/ req.maxDepth > 5

\* C11: a scan request with a missing or malformed seed URL, maxUrls > 300
\* or maxDepth > 5 is answered with a validation error and the crawl is not
\* started: no fetch is issued and no URL list is produced.
C11_InvalidScanNotStarted ==
    (pc # "idle" /\ ScanRefusable) =>
        /\ pc \in {"request", "done"}
        /\ fetchLog = << >>
        /\ queue = << >> /\ visited = {} /\ urls = << >>
        /\ pc = "done" =>
              /\ resp.status = 400
              /\ ~resp.success
              /\ resp.error \in {UrlRequired, InvalidUrl, TooManyUrls, TooDeep}
              /\ resp.urls = << >>

\* a request refused for its maxDepth alone
C11_Witness ==
    /\ pc = "done"
    /\ req.url.kind = "url"
    /\ req.maxUrls <= 300
    /\ req.maxDepth > 5
    /\ resp.status = 400
    /\ resp.error = TooDeep

\* a fetched page that links back to a URL already crawled (a cycle)
CyclicFetch ==
    \E i \in DOMAIN fetchLog :
        /\ fetchLog[i].ok
        /\ \E k \in DOMAIN fetchLog[i].html :
              Canon(ResolveLink(fetchLog[i].html[k], fetchLog[i].url)) \in
                  {fetchLog[j].url : j \in 1..i}

LinkTargets(entry) ==
    LET abs(k) == ResolveLink(entry.html[k], entry.url)
    IN { Canon(abs(k)) : k \in { n \in DOMAIN entry.html :
                                   /\ entry.html[n].kind # "skip"
                                   /\ Parseable(abs(n))
                                   /\ SameDomain(abs(n).host, SeedHost) } }

\* the URLs within k links of the seed, following successfully fetched pages
RECURSIVE ChainLevel(_)
ChainLevel(k) ==
    IF k = 0 THEN {Canon(validatedUrl(req.url))}
    ELSE LET prev == ChainLevel(k - 1)
         IN prev \cup UNION { LinkTargets(fetchLog[i]) :
                                i \in { n \in DOMAIN fetchLog :
                                          fetchLog[n].ok /\ fetchLog[n].url \in prev } }

\* the length of the shortest chain from the seed is exactly d
ShortestChainIs(url, d) ==
    /\ url \in ChainLevel(d)
    /\ d > 0 => url \notin ChainLevel(d - 1)

\* C23: the seed is the first record at depth 0 (when maxUrls >= 1 and
\* maxDepth >= 0), the depths in the returned list are non-decreasing, and
\* each record's depth is the length of the shortest chain of successfully
\* fetched same-site links from the seed.
C23_BreadthFirst ==
    Returned =>
        /\ (req.maxUrls >= 1 /\ req.maxDepth >= 0) =>
              /\ resp.urls # << >>
              /\ resp.urls[1] = [url |-> Canon(validatedUrl(req.url)), depth |-> 0]
        /\ \A i, j \in DOMAIN resp.urls :
              i < j => resp.urls[i].depth <= resp.urls[j].depth
        /\ \A i \in DOMAIN resp.urls :
              ShortestChainIs(resp.urls[i].url, resp.urls[i].depth)

\* the entry at the head of the queue is one the loop skips: its URL cannot
\* be parsed, or is already visited, or its depth exceeds maxDepth
HeadIsSkipped ==
    /\ queue # << >>
    /\ \/ ~Parseable(Head(queue).url)
       \/ Canon(Head(queue).url) \in visited
       \/ Head(queue).depth > req.maxDepth

\* an iteration of the loop takes the head of the queue
Dequeues == pc = "loop" /\ LoopCondition /\ queue' = Tail(queue)

\* C24: dequeuing a URL that is already visited, or whose depth exceeds
\* maxDepth, or that cannot be parsed, leaves the result list, the visited
\* set and the number of fetches unchanged; only the queue shrinks.
C24_SkipChangesOnlyQueue ==
    [][ (Dequeues /\ HeadIsSkipped) =>
            /\ urls' = urls
            /\ visited' = visited
            /\ NumFetches' = NumFetches
            /\ fetchLog' = fetchLog
            /\ queue' = Tail(queue)
            /\ pc' = "loop" ]_vars

\* /b was enqueued by the home page and again by /a before it was visited;
\* its second entry has been dequeued and skipped
C24_Witness ==
    /\ pc = "loop"
    /\ queue = << >>
    /\ req.maxUrls > 3
    /\ Len(fetchLog) >= 2
    /\ fetchLog[1].ok /\ fetchLog[1].html = <<hA, hRootB, hOther>>
    /\ fetchLog[2].ok /\ fetchLog[2].html = <<hRootB, hHome>>
    /\ Len(urls) = 3

\* a fetch has just succeeded: the log has grown by an entry with a page
FetchSucceeds ==
    /\ pc = "fetching"
    /\ Len(fetchLog') = Len(fetchLog) + 1
    /\ fetchLog'[Len(fetchLog')].ok

\* C25: when a page at depth < maxDepth is fetched successfully while the
\* result count is under maxUrls, every link on it whose host is the seed
\* host or a subdomain of the seed host and that is not yet visited is
\* enqueued at depth + 1, whatever the host of the linking page; so when
\* maxUrls is not reached, every same-site page reachable within maxDepth
\* through successfully fetched pages is in the result.
C25_SameSiteLinksEnqueued ==
    /\ [][ FetchSucceeds =>
             \A t \in LinkTargets(fetchLog'[Len(fetchLog')]) \ visited :
                 \E k \in DOMAIN queue' :
                     /\ k > Len(queue)
                     /\ queue'[k] = [url |-> t, depth |-> cur.depth + 1] ]_vars
    /\ []( (Returned /\ Len(resp.urls) < req.maxUrls /\ req.maxDepth >= 0) =>
             \A t \in ChainLevel(req.maxDepth) :
                 \E i \in DOMAIN resp.urls : resp.urls[i].url = t )

\* the loop hands a URL to fetchPage
IssuesFetch == pc = "loop" /\ pc' = "fetching"

\* C28: within one crawl no URL is fetched more than once: a fetch is issued
\* only for a URL at the moment it is first marked visited, and a visited
\* URL is never marked or fetched again even when it is enqueued several
\* times.
C28_FetchedAtMostOnce ==
    /\ [](/\ \A i, j \in DOMAIN fetchLog : i < j => fetchLog[i].url # fetchLog[j].url
          /\ pc = "fetching" => \A i \in DOMAIN fetchLog : fetchLog[i].url # cur.url
          /\ Fetched \subseteq visited
          /\ \A i, j \in DOMAIN urls : i < j => urls[i].url # urls[j].url
          /\ visited = {urls[i].url : i \in DOMAIN urls})
    /\ [][ IssuesFetch =>
             /\ cur'.url \notin visited
             /\ visited' = visited \cup {cur'.url}
             /\ urls' = Append(urls, cur') ]_vars
    /\ [][ Len(urls') > Len(urls) =>
             /\ urls'[Len(urls')].url \notin visited
             /\ Len(urls') = Len(urls) + 1 ]_vars

\* /b was enqueued twice, fetched once, and its second entry is gone
C28_Witness ==
    /\ pc = "loop"
    /\ queue = << >>
    /\ Len(fetchLog) = 3
    /\ fetchLog[1].ok /\ fetchLog[1].html = <<hA, hRootB, hOther>>
    /\ fetchLog[2].ok /\ fetchLog[2].html = <<hRootB, hHome>>
    /\ fetchLog[3].url = Url("http", ExampleEdu, <<"b">>)
    /\ Len(urls) = 3

----------------------------------------------------------------------------
(* Properties of the analyze route *)

\* the request passed validation
Accepted == AnalyzeValidation(areq) = ""

\* the text holds an object the route can decode: from its first "{" to
\* its last "}" it is "{", members, "}"
Decodable(response) ==
    \E i, j \in 1..Len(response) :
        /\ i < j
        /\ response[i].t = "{"
        /\ response[j].t = "}"
        /\ \A k \in 1..(i - 1) : response[k].t # "{"
        /\ \A k \in (j + 1)..Len(response) : response[k].t # "}"
        /\ \A k \in (i + 1)..(j - 1) : response[k].t = "member"

HasBraces(response) ==
    \E i, j \in 1..Len(response) : i < j /\ response[i].t = "{" /\ response[j].t = "}"

\* the Finding produced by the completion call logged as e
FindingAt(e) ==
    IF e.page <= Len(results) THEN results[e.page].findings[e.snippet]
    ELSE findings[e.snippet]

NonEmptyNotes(f) == f.notes.type = "string" /\ ~IsEmptyString(f.notes)

\* C3: whenever a completion call returned text that cannot be decoded as
\* an object (no brace-delimited substring, a brace-delimited substring that
\* is not valid JSON, or an empty response), the Finding produced for that
\* snippet has confidence low and a non-empty notes field.
C3_UndecodableIsLowWithNotes ==
    \A n \in 1..Len(callLog) :
        LET e == callLog[n]
        IN (~e.threw /\ ~Decodable(e.response)) =>
              /\ FindingAt(e).html_context = e.prompt.snippet
              /\ FindingAt(e).confidence = "low"
              /\ NonEmptyNotes(FindingAt(e))

\* a finished run in which an empty response, a response without braces and
\* a response whose braces hold no valid JSON were each returned
C3_Witness ==
    /\ apc = "done"
    /\ aresp.success
    /\ \E a, b, c \in 1..Len(callLog) :
         /\ ~callLog[a].threw /\ callLog[a].response = << >>
         /\ ~callLog[b].threw /\ callLog[b].response # << >>
                              /\ ~HasBraces(callLog[b].response)
         /\ ~callLog[c].threw /\ HasBraces(callLog[c].response)
                              /\ ~Decodable(callLog[c].response)

\* the request is one the claim says is refused: urls absent, not a list,
\* empty, or longer than 500 entries
AnalyzeRefusable ==
    \/ areq.urls.kind # "array"
    \/ Len(areq.urls.items) = 0
    \/ Len(areq.urls.items) > 500

\* C12: an analyze request whose urls value is absent, not a list, empty or
\* longer than 500 entries is answered with a validation error before any
\* page fetch or completion call is made.
C12_InvalidAnalyzeNotStarted ==
    (apc # "idle" /\ AnalyzeRefusable) =>
        /\ apc \in {"request", "done"}
        /\ pageLog = << >>
        /\ callLog = << >>
        /\ results = << >>
        /\ apc = "done" =>
              /\ aresp.status = 400
              /\ ~aresp.success
              /\ aresp.error \in {UrlsRequired, TooManyAnalyzeUrls}
              /\ aresp.results = << >>

\* a list of 501 URLs was refused
C12_Witness ==
    /\ apc = "done"
    /\ areq.urls.kind = "array"
    /\ Len(areq.urls.items) = 501
    /\ aresp.status = 400
    /\ aresp.error = TooManyAnalyzeUrls

ContextsOf(fs) == [k \in 1..Len(fs) |-> fs[k].html_context]
SnippetsOf(detected) == [k \in 1..Len(detected) |-> detected[k].snippet]

\* result i is the result of urls[i], with one Finding per snippet the
\* detector returned for that page, in the detector's order
ResultMatches(i) ==
    /\ results[i].url = areq.urls.items[i]
    /\ pageLog[i].url = areq.urls.items[i]
    /\ ContextsOf(results[i].findings) = SnippetsOf(pageLog[i].detected)

C4_Shape ==
    /\ Len(results) <= Len(areq.urls.items)
    /\ \A i \in 1..Len(results) : ResultMatches(i)
    /\ apc = "snippet" =>
          ContextsOf(findings) = SubSeq(SnippetsOf(snippets), 1, sIdx - 1)
    /\ (apc = "done" /\ Accepted) =>
          /\ aresp.status = 200
          /\ aresp.success
          /\ aresp.results = results
          /\ Len(results) = Len(areq.urls.items)

\* results already pushed, and findings of the page in progress, stay put
C4_Keeps ==
    /\ Len(results') >= Len(results)
    /\ SubSeq(results', 1, Len(results)) = results
    /\ (apc = "snippet" /\ aIdx' = aIdx /\ apc' = "snippet") =>
          SubSeq(findings', 1, Len(findings)) = findings

\* C4: for every accepted URL list and every combination of page-fetch
\* failures, completion-call failures and unparseable responses, analyze
\* returns success with exactly one AnalysisResult per input URL in input
\* order and, for each page, exactly one Finding per detected snippet in
\* detection order; a failure never removes or reorders other results.
C4_ShapeIndependentOfFailures == []C4_Shape /\ [][C4_Keeps]_vars

\* a finished two-page run: the first page could not be fetched; on the
\* second the first completion call threw and the second returned text
\* that cannot be decoded; both results and both findings are there
C4_Witness ==
    /\ apc = "done"
    /\ aresp.success
    /\ Len(aresp.results) = 2
    /\ ~pageLog[1].ok
    /\ pageLog[2].ok
    /\ Len(aresp.results[2].findings) = 2
    /\ Len(callLog) = 2
    /\ callLog[1].threw
    /\ ~callLog[2].threw /\ ~Decodable(callLog[2].response)

\* the 1-based positions of the legacy terms of a text
LegacyStarts(text) == {i \in 1..Len(text) : LegacyMatchLen(text, i) > 0}

\* by how much the text grows when the terms at S are replaced by 'Workday'
RECURSIVE Growth(_, _)
Growth(text, S) ==
    IF S = {} THEN 0
    ELSE LET i == CHOOSE x \in S : TRUE
         IN Len(wWorkday) - LegacyMatchLen(text, i) + Growth(text, S \ {i})

\* r is the snippet with every legacy term replaced by 'Workday': no term
\* is left, the length is right, and the text up to and including the
\* first replacement is right
ReplacedAll(snippet, r) ==
    /\ LegacyStarts(r) = {}
    /\ Len(r) = Len(snippet) + Growth(snippet, LegacyStarts(snippet))
    /\ IF LegacyStarts(snippet) = {} THEN r = snippet
       ELSE LET first == CHOOSE i \in LegacyStarts(snippet) :
                             \A j \in LegacyStarts(snippet) : i <= j
            IN /\ SubSeq(r, 1, first - 1) = SubSeq(snippet, 1, first - 1)
               /\ SubSeq(r, first, first + Len(wWorkday) - 1) = wWorkday

\* a step in which a completion call threw
CallThrew ==
    /\ Len(callLog') = Len(callLog) + 1
    /\ callLog'[Len(callLog')].threw

C15_Step ==
    CallThrew =>
        LET e == callLog'[Len(callLog')]
            f == findings'[Len(findings')]
        IN /\ apc' = "done" => (aresp'.success /\ aresp'.status = 200)
           /\ Len(findings') = Len(findings) + 1
           /\ e.snippet = Len(findings')
           /\ apc' = "snippet" \/ results'[Len(results')].findings = findings'
           /\ f.html_context = e.prompt.snippet
           /\ f.primary_audience = JsString("mixed/other")
           /\ f.task_category = JsString("generic_system_reference")
           /\ f.reference_type = JsString("informational_reference")
           /\ f.confidence = "low"
           /\ f.proposed_replacement.type = "string"
           /\ ReplacedAll(f.html_context, f.proposed_replacement.cs)
           /\ NonEmptyNotes(f)

\* C15: when the completion call itself fails, the failure is not
\* propagated to the caller of analyze; the snippet gets a locally
\* synthesized Finding whose category fields are the generic defaults, whose
\* confidence is low, whose proposed_replacement is the snippet with every
\* legacy term replaced by the generic label, and whose notes are non-empty.
C15_CallFailureFallsBack == [][C15_Step]_vars

\* a finished run in which a call threw for want of an API key and the
\* finding carries the rewritten snippet and the message
C15_Witness ==
    /\ apc = "done"
    /\ aresp.success
    /\ \E n \in 1..Len(callLog) :
         /\ callLog[n].threw
         /\ FindingAt(callLog[n]).notes = JsString(MissingApiKey)
         /\ FindingAt(callLog[n]).proposed_replacement # JsText(callLog[n].prompt.snippet)
         /\ FindingAt(callLog[n]).confidence = "low"

FlagMatchesFindings(result) ==
    (result.findings = << >>) <=> ~result.hasLegacyReferences

\* C17: in every AnalysisResult, findings is empty if and only if
\* hasLegacyReferences is false, for every outcome of the page fetch, the
\* detector and the completion calls.
C17_FindingsIffLegacy ==
    /\ \A i \in 1..Len(results) : FlagMatchesFindings(results[i])
    /\ \A i \in 1..Len(aresp.results) : FlagMatchesFindings(aresp.results[i])

\* a returned pair of results: a page with a finding although its only
\* completion call threw, and a page that could not be fetched
C17_Witness ==
    /\ apc = "done"
    /\ Len(aresp.results) = 2
    /\ aresp.results[1].hasLegacyReferences
    /\ Len(aresp.results[1].findings) = 1
    /\ Len(callLog) = 1 /\ callLog[1].threw
    /\ ~pageLog[2].ok
    /\ ~aresp.results[2].hasLegacyReferences
    /\ aresp.results[2].findings = << >>

\* requests issued and not yet answered: page fetches of the crawl, and
\* page fetches and completion calls of the analysis
CrawlInFlight == NumFetches - Len(fetchLog)
PageFetchesIssued == Len(pageLog) + (IF apc = "page" THEN 1 ELSE 0)
CallsIssued == Len(callLog) + (IF apc = "snippet" THEN 1 ELSE 0)
AnalyzeInFlight == (PageFetchesIssued - Len(pageLog)) + (CallsIssued - Len(callLog))

\* the completion calls answered so far for snippet k of page i
CallsFor(i, k) ==
    {n \in 1..Len(callLog) : callLog[n].page = i /\ callLog[n].snippet = k}

\* the snippets of page i whose classification is over
ClassifiedOf(i) ==
    IF i <= Len(results) THEN 1..Len(pageLog[i].detected)
    ELSE IF apc = "snippet" /\ i = aIdx THEN 1..(sIdx - 1)
    ELSE {}

\* C20: within one crawl at most one page fetch is in flight, and within
\* one analysis at most one page fetch or completion call; each completion
\* call is issued for exactly one snippet and each snippet gets exactly one
\* call (no batching, no retry).
C20_Sequential ==
    /\ CrawlInFlight \in {0, 1}
    /\ AnalyzeInFlight \in {0, 1}
    /\ \A n \in 1..Len(callLog) :
          LET e == callLog[n]
          IN /\ e.page \in 1..Len(pageLog)
             /\ e.snippet \in 1..Len(pageLog[e.page].detected)
             /\ e.prompt.snippet = pageLog[e.page].detected[e.snippet].snippet
             /\ CallsFor(e.page, e.snippet) = {n}
    /\ \A i \in 1..Len(pageLog) :
          \A k \in ClassifiedOf(i) : Cardinality(CallsFor(i, k)) = 1

\* a crawl with a fetch in flight beside an analysis that has classified
\* the first of two snippets, after a call that threw, and waits for the
\* call of the second
C20_Witness ==
    /\ pc = "fetching"
    /\ apc = "snippet"
    /\ Len(snippets) = 2
    /\ sIdx = 2
    /\ Len(callLog) = 1
    /\ callLog[1].threw

----------------------------------------------------------------------------
(* Properties of the client *)

\* the canonical URLs of a list, in list order
KeysOf(list) == [i \in DOMAIN list |-> normalizeUrlForCompare(list[i].url)]

\* the position at which a key appears first / last in a sequence of keys
FirstAt(keys, key) ==
    CHOOSE i \in DOMAIN keys : keys[i] = key /\ \A j \in DOMAIN keys : keys[j] = key => i <= j
LastAt(keys, key) ==
    CHOOSE i \in DOMAIN keys : keys[i] = key /\ \A j \in DOMAIN keys : keys[j] = key => j <= i

\* C29: merging an existing URL list with an incoming one yields a list with
\* no two entries of the same canonical URL, containing every canonical URL
\* of either input; for a URL present in both, the incoming entry (its
\* depth) replaces the existing one, and the order is that of first
\* appearance (existing entries first).
C29_MergeByCanonicalUrl ==
    mergeLog.called =>
        LET existing == mergeLog.existing
            incoming == mergeLog.incoming
            out == mergeLog.out
            all == KeysOf(existing \o incoming)
        IN /\ \A i, j \in DOMAIN out : i < j => KeysOf(out)[i] # KeysOf(out)[j]
           /\ Range(KeysOf(out)) = Range(all)
           /\ \A i \in DOMAIN out :
                 IF KeysOf(out)[i] \in Range(KeysOf(incoming))
                 THEN out[i] = incoming[LastAt(KeysOf(incoming), KeysOf(out)[i])]
                 ELSE out[i] = existing[LastAt(KeysOf(existing), KeysOf(out)[i])]
           /\ \A i, j \in DOMAIN out :
                 i < j => FirstAt(all, KeysOf(out)[i]) < FirstAt(all, KeysOf(out)[j])

\* a merge in which a URL of the existing list came in again, spelled
\* differently and at another depth, next to a URL that is new
C29_Witness ==
    /\ mergeLog.called
    /\ \E i \in DOMAIN mergeLog.existing, j \in DOMAIN mergeLog.incoming :
          /\ KeysOf(mergeLog.existing)[i] = KeysOf(mergeLog.incoming)[j]
          /\ mergeLog.existing[i].depth # mergeLog.incoming[j].depth
          /\ mergeLog.existing[i].url # mergeLog.incoming[j].url
    /\ Range(KeysOf(mergeLog.incoming)) \ Range(KeysOf(mergeLog.existing)) # {}
    /\ Range(KeysOf(mergeLog.existing)) \ Range(KeysOf(mergeLog.incoming)) # {}

\* the step applies the results of an analyze request to the URL list
AnalyzeApplies == isAnalyzing /\ ~isAnalyzing'

\* two records stand for the same page
SamePage(r, s) == normalizeUrlForCompare(r.url) = normalizeUrlForCompare(s.url)

\* C21: over any sequence of scan, load-URLs and analyze operations on the
\* URL list, a record's status changes only from pending to analyzed or
\* error and only as the effect of an analyze operation; no scan, merge or
\* load operation changes the status of an existing record or discards its
\* analysis.
C21_StatusLifecycle ==
    [][ /\ \A i \in DOMAIN scannedURLs : \A j \in DOMAIN scannedURLs' :
              SamePage(scannedURLs[i], scannedURLs'[j]) =>
                  \/ scannedURLs'[j].status = scannedURLs[i].status
                  \/ /\ AnalyzeApplies
                     /\ scannedURLs[i].status = "pending"
                     /\ scannedURLs'[j].status \in {"analyzed", "error"}
        /\ ~AnalyzeApplies =>
              \A i \in DOMAIN scannedURLs :
                  scannedURLs[i].status # "pending" =>
                      \E j \in DOMAIN scannedURLs' :
                          /\ SamePage(scannedURLs[i], scannedURLs'[j])
                          /\ scannedURLs'[j].status = scannedURLs[i].status
                          /\ scannedURLs'[j].analysis = scannedURLs[i].analysis ]_vars

\* the positions in the URL list of the records whose analysis has
\* hasLegacyReferences true and at least one finding
LegacyPositions ==
    {i \in DOMAIN scannedURLs :
        /\ scannedURLs[i].status = "analyzed"
        /\ scannedURLs[i].analysis.hasLegacyReferences
        /\ scannedURLs[i].analysis.findings # << >>}

\* the k-th smallest element of a set of numbers
Nth(S, k) == CHOOSE i \in S : Cardinality({j \in S : j < i}) = k - 1

\* a report has just been built
ReportBuilt == report' # report

\* C30: in every report, totalUrlsScanned equals the number of records in
\* the URL list, urlsWithLegacyReferences equals the number of records whose
\* analysis has hasLegacyReferences true and at least one finding,
\* recommendedUpdates holds exactly those records in URL-list order, and
\* urlsWithLegacyReferences <= totalUrlsScanned.
C30_ReportCounts ==
    [][ ReportBuilt =>
          /\ report'.totalUrlsScanned = Len(scannedURLs)
          /\ report'.urlsWithLegacyReferences = Cardinality(LegacyPositions)
          /\ Len(report'.recommendedUpdates) = Cardinality(LegacyPositions)
          /\ \A k \in DOMAIN report'.recommendedUpdates :
                /\ report'.recommendedUpdates[k].url = scannedURLs[Nth(LegacyPositions, k)].url
                /\ report'.recommendedUpdates[k].findings =
                       scannedURLs[Nth(LegacyPositions, k)].analysis.findings
          /\ report'.urlsWithLegacyReferences <= report'.totalUrlsScanned ]_vars

\* a report over three records or more, two of them with findings and, before
\* the second of these, one without
C30_Witness ==
    /\ report.built
    /\ report.totalUrlsScanned >= 3
    /\ report.urlsWithLegacyReferences = 2
    /\ report.totalUrlsScanned = Len(scannedURLs)
    /\ \E i \in DOMAIN scannedURLs :
          /\ i \notin LegacyPositions
          /\ i < Nth(LegacyPositions, 2)
    /\ report.recommendedUpdates[2].url = scannedURLs[Nth(LegacyPositions, 2)].url

----------------------------------------------------------------------------
(* Properties of the classifier *)

\* the text the completion call returned (when it did not throw)
kResponse == IF kOutcome.content.present THEN kOutcome.content.text ELSE << >>

\* the response was decoded into an object
kDecoded == ~kOutcome.threw /\ Decodable(kResponse)

\* the values the response carries under a key
ValuesOf(response, key) ==
    {response[i].v : i \in {j \in 1..Len(response) :
                               response[j].t = "member" /\ response[j].k = key}}

IsOneOf(v, S) == v.type = "string" /\ v.s \in S

\* C16: every Finding has confidence in {high, medium, low}; it is low
\* whenever the response lacks a confidence value, carries one outside the
\* three values, could not be parsed, or the call failed.
C16_ConfidenceInEnum ==
    kPc = "done" =>
        /\ kFinding.confidence \in {"high", "medium", "low"}
        /\ ( \/ kOutcome.threw
             \/ ~Decodable(kResponse)
             \/ \A v \in ValuesOf(kResponse, "confidence") :
                    ~IsOneOf(v, {"high", "medium", "low"}) )
            => kFinding.confidence = "low"

\* a decoded response that carried confidence "certain" was classified low
C16_Witness ==
    /\ kPc = "done"
    /\ kDecoded
    /\ ValuesOf(kResponse, "confidence") = {JsString("certain")}
    /\ kFinding.confidence = "low"
    /\ kFinding.html_context = kSnippet

\* the closed sets the prompt gives for the three enumerated fields
Audiences == {"students", "employees/faculty/staff", "mixed/other"}
TaskCategories ==
    {"registration_and_academic_planning", "grades_transcripts_and_records",
     "student_finance_and_aid", "general_student_portal_access", "hr_time_payroll",
     "employee_self_service_other", "administrative_reporting_and_advising",
     "generic_system_reference"}
ReferenceTypes == {"action_portal", "informational_reference", "historical_reference"}

\* C18: for every decodable response, primary_audience, task_category and
\* reference_type of the Finding are members of their closed sets: a value
\* outside the set is replaced by the generic default, like a missing one.
C18_EnumFieldsInSets ==
    (kPc = "done" /\ kDecoded) =>
        /\ IsOneOf(kFinding.primary_audience, Audiences)
        /\ IsOneOf(kFinding.task_category, TaskCategories)
        /\ IsOneOf(kFinding.reference_type, ReferenceTypes)

\* C19: every Finding, whether taken from the model's response or
\* synthesized by a fallback tier, has a suggested_keywords list of 3 to 6
\* entries.
C19_ThreeToSixKeywords ==
    kPc = "done" =>
        /\ kFinding.suggested_keywords.type = "array"
        /\ Len(kFinding.suggested_keywords.arr) \in 3..6

\* the first brace-delimited span of a response: from the first "{" to the
\* first "}" after it
FirstObject(response) ==
    LET opens == {i \in 1..Len(response) : response[i] = LBrace}
    IN IF opens = {} THEN NoMatch
       ELSE LET first == CHOOSE i \in opens : \A j \in opens : i <= j
                closes == {i \in first..Len(response) : response[i] = RBrace}
            IN IF closes = {} THEN NoMatch
               ELSE [found |-> TRUE,
                     str |-> SubSeq(response, first,
                                    CHOOSE i \in closes : \A j \in closes : i <= j)]

\* a valid object followed by further text that holds a closing brace
ObjectThenBrace(response) ==
    /\ FirstObject(response).found
    /\ JsonValid(FirstObject(response).str)
    /\ JsonMatch(response).str # FirstObject(response).str

\* C26: when the response holds a valid JSON object followed by further text
\* that itself contains a closing brace (for example a second object), the
\* first object's fields are used for the Finding rather than the
\* total-fallback values.
C26_FirstObjectDecoded ==
    (kPc = "done" /\ ~kOutcome.threw /\ ObjectThenBrace(kResponse)) =>
        kFinding = ParsedFinding(kSnippet, FirstObject(kResponse).str)

----------------------------------------------------------------------------
(* Properties of the detector *)

\* the text the detector was given
dText == PageText(dBody)

\* the characters [start, end) of the text that a returned entry was cut from
WindowOf(text, entry) ==
    IF entry.offset \in CougarIndexes(text)
    THEN [start |-> Max(0, entry.offset - CougarBefore),
          end |-> Min(Len(text), entry.offset + CougarAfter)]
    ELSE [start |-> Max(0, entry.offset - ColleagueWindow),
          end |-> Min(Len(text), entry.offset + ColleagueWindow)]

\* the entry's snippet contains the n characters of the text from index
Covers(text, entry, index, n) ==
    /\ WindowOf(text, entry).start <= index
    /\ index + n <= WindowOf(text, entry).end

\* C13: for every page text that contains a direct match of the product
\* name ("CougarWeb", "Cougar Web", any letter case), whatever the length of
\* the page and wherever the match lies, the detector returns at least one
\* snippet containing that match.
C13_EveryDirectMatchHasSnippet ==
    dPc = "done" =>
        \A index \in CougarIndexes(dText) :
            \E k \in 1..Len(dOut) :
                Covers(dText, dOut[k], index, CougarMatchLen(dText, index + 1))

RecordsPhrase ==
    << "s", "t", "u", "d", "e", "n", "t", " ", "r", "e", "c", "o", "r", "d",
       "s", " ", "s", "y", "s", "t", "e", "m" >>

\* the n characters of the text from index lie in the window around the
\* occurrence of "colleague" at occurrence
InColleagueWindow(text, occurrence, index, n) ==
    /\ Max(0, occurrence - 100) <= index
    /\ index + n <= Min(Len(text), occurrence + 100)

\* a word of the vocabulary is a whole word of the page inside the window
PageVocabularyInWindow(text, occurrence) ==
    \E i \in 1..Len(text) : \E w \in SystemWords :
        /\ WholeWordAt(text, i, w)
        /\ InColleagueWindow(text, occurrence, i - 1, Len(w))

NearRecordsSystem(text, occurrence) ==
    \E i \in 1..Len(text) :
        /\ MatchAt(text, i, RecordsPhrase)
        /\ InColleagueWindow(text, occurrence, i - 1, Len(RecordsPhrase))

EmittedFor(occurrence) == {k \in 1..Len(dOut) : dOut[k].offset = occurrence}

\* C14: for an occurrence of "colleague", if no word of the vocabulary is a
\* whole word of the page within the window around the occurrence, the
\* detector emits no snippet for it (also when the window edge cuts a longer
\* word into a vocabulary word); if the occurrence is near "student records
\* system", it emits exactly one snippet for it.
C14_ColleagueNeedsVocabulary ==
    dPc = "done" =>
        \A occurrence \in ColleagueIndexes(dText) :
            /\ ~PageVocabularyInWindow(dText, occurrence) => EmittedFor(occurrence) = {}
            /\ NearRecordsSystem(dText, occurrence) =>
                  Cardinality(EmittedFor(occurrence)) = 1

\* no whitespace other than single spaces, none at either end
CollapsedAndTrimmed(s) ==
    /\ \A i \in 1..Len(s) : IsSpace(s[i]) => s[i] = " "
    /\ \A i \in 1..(Len(s) - 1) : ~(s[i] = " " /\ s[i + 1] = " ")
    /\ s # << >> => (s[1] # " " /\ s[Len(s)] # " ")

\* C27: every snippet the detector returns for a page is whitespace-collapsed
\* and trimmed, is longer than 20 and at most 200 characters, and differs in
\* text from every other snippet returned for the same page, whether the
\* snippets come from the direct rule, the disambiguation rule, or both.
C27_SnippetsWellFormed ==
    dPc = "done" =>
        /\ \A k \in 1..Len(dOut) :
              /\ CollapsedAndTrimmed(dOut[k].snippet)
              /\ Len(dOut[k].snippet) > 20
              /\ Len(dOut[k].snippet) <= 200
        /\ \A j, k \in 1..Len(dOut) : j < k => dOut[j].snippet # dOut[k].snippet

\* a page that yields a snippet of each rule
C27_Witness ==
    /\ dPc = "done"
    /\ \E j, k \in 1..Len(dOut) :
          /\ dOut[j].offset \in CougarIndexes(dText)
          /\ dOut[k].offset \in ColleagueIndexes(dText)

----------------------------------------------------------------------------
(* Properties of canonicalization *)

Apply(s) == IF cFn = "route" THEN Canon(s) ELSE normalizeUrlForCompare(s)

\* the string followed by "/", and the string followed by "#top"
AddSlash(s) == [s EXCEPT !.path = @ \o <<"">>]
AddFrag(s) == [s EXCEPT !.frag = TRUE]
\* a URL text with no query, no fragment and no trailing slash
Plain(s) ==
    /\ s.kind = "url" /\ s.query = "" /\ ~s.frag /\ ~EndsWithSlash(s)
    /\ cFn = "route" => Parseable(s)

\* C5: canonicalization is idempotent for every URL, and a URL with and
\* without a trailing slash or a fragment canonicalizes to the same string.
C5_CanonIdempotent ==
    /\ Len(cOut) >= 2 => cOut[2] = cOut[1]
    /\ (Len(cOut) >= 1 /\ Plain(cIn)) =>
          /\ Apply(AddSlash(cIn)) = cOut[1]
          /\ Apply(AddFrag(cIn)) = cOut[1]

====